---------------------------- MODULE Spec2Model ----------------------------
(***************************************************************************)
(* Amul stock-alert bot: the location resolver and catalog fetcher         *)
(* (scraper/amul_api.py), the stock monitor (scheduler/stock_monitor.py),  *)
(* the persistent store (database/db.py) and the chat handlers that touch  *)
(* them (bot/handlers.py).                                                 *)
(*                                                                         *)
(* Python values are encoded as follows.  A postal code (a str) is a       *)
(* sequence of characters, each character a number: 0..9 are the digits    *)
(* and NonDigit is any other character.  None and '' are the empty         *)
(* sequence.  An optional record is <<>> (None) or <<r>>.                   *)
(***************************************************************************)
EXTENDS Integers, Sequences, FiniteSets, TLC

(* ------------------------------ bounds -------------------------------- *)
MaxQty == 21        \* quantities range over -1..MaxQty in SpecDiff
MaxRaw == 3         \* longest raw item list in SpecFetch
MaxCalls == 4       \* resolver calls per run in SpecRes
MaxTicks == 2       \* ticks of the monitor per run
MaxChat == 2        \* chat-handler steps per run in SpecConc
MaxAlerts == 1      \* rows of the stock_alerts table per run
MaxLoopTicks == 3   \* ticks of the monitor per run in SpecLoop
MaxResp == 3        \* responses handled in one browser run in SpecLive
MaxFetches == 2     \* browser runs per caller in SpecBrowser

(* ----------------------- program constants ---------------------------- *)
LowStockLimit == 10         \* stock_monitor.py: current_quantity <= 10
DefaultPincodeNum == 400001 \* amul_api.py: pincode = '400001'

NonDigit == 10
NoCode == <<>>
None == <<>>
Some(x) == <<x>>

(* --------------------------- str and int ------------------------------ *)
RECURSIVE ToIntAcc(_, _)
ToIntAcc(s, acc) ==
    IF s = <<>> THEN acc ELSE ToIntAcc(Tail(s), 10 * acc + Head(s))

\* int(pincode): the value of a digit string; raises ValueError otherwise.
IsIntLiteral(s) == s # <<>> /\ \A i \in 1..Len(s) : s[i] \in 0..9
ToInt(s) == ToIntAcc(s, 0)

\* str(n) for a six-digit number, the form every code of the tables has.
ToStr(n) ==
    << (n \div 100000) % 10, (n \div 10000) % 10, (n \div 1000) % 10,
       (n \div 100) % 10, (n \div 10) % 10, n % 10 >>

(* --------------------------- SUBSTORE_IDS ----------------------------- *)
SUBSTORE_IDS ==
    [ a \in { "goa", "telangana", "pune-br", "solapur-br", "nashik-br",
              "aurangabad-br", "chhattisgarh", "mumbai-br",
              "dadra-and-nagar-haveli", "west-bengal", "odisha", "sikkim",
              "tripura", "mizoram", "meghalaya", "nagaland", "manipur",
              "jharkhand", "assam", "bihar", "arunachal-pradesh",
              "uttar-pradesh-e", "up-ncr", "uttrakhand", "rajasthan",
              "jandk", "madhya-pradesh", "ladakh", "haryana", "tamil-nadu-1",
              "delhi", "punjab", "andhra-pradesh", "pondicherry", "kerala",
              "himachal-pradesh", "chandigarh", "karnataka", "gujarat",
              "daman-and-diu" } |->
      CASE a = "goa" -> "66506005147d6c73c1110115"
        [] a = "telangana" -> "66506004aa64743ceefbed25"
        [] a = "pune-br" -> "66506004a7cddee1b8adb014"
        [] a = "solapur-br" -> "66506004145c16635e6cc914"
        [] a = "nashik-br" -> "66506002c8f2d6e221b9193a88"
        [] a = "aurangabad-br" -> "66506002aa64743ceefbecf1"
        [] a = "chhattisgarh" -> "66506002998183e1b1935f41"
        [] a = "mumbai-br" -> "66506000c8f2d6e221b9193a"
        [] a = "dadra-and-nagar-haveli" -> "6650600062e3d963520d0bc3"
        [] a = "west-bengal" -> "6650600024e61363e088c526"
        [] a = "odisha" -> "66505ffeaf6a3c7411d2f62c"
        [] a = "sikkim" -> "66505ffe91ab653d60a3df2d"
        [] a = "tripura" -> "66505ffe78117873bb53b6ad"
        [] a = "mizoram" -> "66505ffd998183e1b1935e21"
        [] a = "meghalaya" -> "66505ffd672747740fb389c7"
        [] a = "nagaland" -> "66505ffd24e61363e088c4a5"
        [] a = "manipur" -> "66505ffbf40e263cf5588098"
        [] a = "jharkhand" -> "66505ffb998183e1b1935dee"
        [] a = "assam" -> "66505ffb6510ee3d5903fef8"
        [] a = "bihar" -> "66505ff9af6a3c7411d2f55f"
        [] a = "arunachal-pradesh" -> "66505ff978117873bb53b643"
        [] a = "uttar-pradesh-e" -> "66505ff924e61363e088c414"
        [] a = "up-ncr" -> "66505ff8c8f2d6e221b9180c"
        [] a = "uttrakhand" -> "66505ff8a7cddee1b8adae9d"
        [] a = "rajasthan" -> "66505ff824e61363e088c3dd"
        [] a = "jandk" -> "66505ff6f40e263cf5587fb5"
        [] a = "madhya-pradesh" -> "66505ff6d9346de216752cd7"
        [] a = "ladakh" -> "66505ff6145c16635e6cc7c1"
        [] a = "haryana" -> "66505ff5af6a3c7411d2f4b2"
        [] a = "tamil-nadu-1" -> "66505ff578117873bb53b56a"
        [] a = "delhi" -> "66505ff5145c16635e6cc74d"
        [] a = "punjab" -> "66505ff3998183e1b1935d0e"
        [] a = "andhra-pradesh" -> "66505ff378117873bb53b542"
        [] a = "pondicherry" -> "66505ff312a50963f24870e8"
        [] a = "kerala" -> "66505ff2998183e1b1935ccd"
        [] a = "himachal-pradesh" -> "66505ff26510ee3d5903fda9"
        [] a = "chandigarh" -> "66505ff1672747740fb388ec"
        [] a = "karnataka" -> "66505ff0998183e1b1935c75"
        [] a = "gujarat" -> "66505ff06510ee3d5903fd42"
        [] a = "daman-and-diu" -> "66505ff024e61363e088c306" ]

\* SUBSTORE_IDS.get(alias): the identifier, or None ("" here) when unknown.
GetSubstoreId(alias) ==
    IF alias \in DOMAIN SUBSTORE_IDS THEN SUBSTORE_IDS[alias] ELSE ""

(* ----------------------- _get_fallback_substore ----------------------- *)
\* The if/elif chain, in source order.  A rule matches pin_num when one of
\* its ranges holds it.
FallbackRules ==
    << [ranges |-> {<<400001, 400104>>}, alias |-> "mumbai-br",
        city |-> "Mumbai", state |-> "Maharashtra", canonical |-> 400001],
       [ranges |-> {<<411001, 411060>>}, alias |-> "pune-br",
        city |-> "Pune", state |-> "Maharashtra", canonical |-> 411001],
       [ranges |-> {<<413001, 413736>>}, alias |-> "solapur-br",
        city |-> "Solapur", state |-> "Maharashtra", canonical |-> 413001],
       [ranges |-> {<<422001, 422605>>}, alias |-> "nashik-br",
        city |-> "Nashik", state |-> "Maharashtra", canonical |-> 422001],
       [ranges |-> {<<431001, 431542>>}, alias |-> "aurangabad-br",
        city |-> "Aurangabad", state |-> "Maharashtra", canonical |-> 431001],
       [ranges |-> {<<110001, 110096>>}, alias |-> "delhi",
        city |-> "Delhi", state |-> "Delhi", canonical |-> 110001],
       [ranges |-> {<<201001, 203207>>, <<244001, 247778>>}, alias |-> "up-ncr",
        city |-> "NCR", state |-> "Uttar Pradesh", canonical |-> 201001],
       [ranges |-> {<<121001, 122505>>}, alias |-> "haryana",
        city |-> "Gurgaon/Faridabad", state |-> "Haryana", canonical |-> 122001],
       [ranges |-> {<<560001, 560110>>}, alias |-> "karnataka",
        city |-> "Bangalore", state |-> "Karnataka", canonical |-> 560001],
       [ranges |-> {<<600001, 600126>>}, alias |-> "tamil-nadu-1",
        city |-> "Chennai", state |-> "Tamil Nadu", canonical |-> 600001],
       [ranges |-> {<<500001, 500097>>}, alias |-> "telangana",
        city |-> "Hyderabad", state |-> "Telangana", canonical |-> 500001],
       [ranges |-> {<<380001, 382481>>}, alias |-> "gujarat",
        city |-> "Ahmedabad", state |-> "Gujarat", canonical |-> 380001],
       [ranges |-> {<<700001, 700156>>}, alias |-> "west-bengal",
        city |-> "Kolkata", state |-> "West Bengal", canonical |-> 700001],
       [ranges |-> {<<302001, 303807>>}, alias |-> "rajasthan",
        city |-> "Jaipur", state |-> "Rajasthan", canonical |-> 302001],
       [ranges |-> {<<682001, 695615>>}, alias |-> "kerala",
        city |-> "Kerala", state |-> "Kerala", canonical |-> 695001],
       [ranges |-> {<<403001, 403806>>}, alias |-> "goa",
        city |-> "Goa", state |-> "Goa", canonical |-> 403001] >>

\* A plausible slip: the lower end of a range written with `<`.
RuleCoversAboveLowerEnd(rule, n) == \E r \in rule.ranges : r[1] < n /\ n <= r[2]

RuleCovers(rule, n) == \E r \in rule.ranges : r[1] <= n /\ n <= r[2]

\* The index of the first rule of the chain that covers n, 0 when none does.
FirstRule(n) ==
    IF \E i \in 1..Len(FallbackRules) : RuleCovers(FallbackRules[i], n)
    THEN CHOOSE i \in 1..Len(FallbackRules) :
            /\ RuleCovers(FallbackRules[i], n)
            /\ \A j \in 1..(i - 1) : ~RuleCovers(FallbackRules[j], n)
    ELSE 0

\* The dict a rule returns for the code as typed.
RuleResolution(rule, pincode) ==
    [ pincode |-> pincode,
      substore_id |-> GetSubstoreId(rule.alias),
      substore_name |-> rule.alias,
      city |-> rule.city,
      state |-> rule.state,
      canonical_pincode |-> ToStr(rule.canonical) ]

\* A plausible slip: the rule hands back the code as typed as canonical code.
FallbackSubstoreRawCanonical(pincode) ==
    IF ~IsIntLiteral(pincode) \/ FirstRule(ToInt(pincode)) = 0 THEN None
    ELSE Some([RuleResolution(FallbackRules[FirstRule(ToInt(pincode))], pincode)
                 EXCEPT !.canonical_pincode = pincode])

\* _get_fallback_substore(pincode): Some(dict) or None; int() raising is
\* caught and gives None.
FallbackSubstore(pincode) ==
    IF ~IsIntLiteral(pincode) THEN None
    ELSE LET i == FirstRule(ToInt(pincode))
         IN IF i = 0 THEN None
            ELSE Some(RuleResolution(FallbackRules[i], pincode))

(* ------------------------------ dicts ---------------------------------- *)
EmptyDict == [k \in {} |-> <<>>]
Put(d, k, v) == (k :> v) @@ d

(* ---------------------- _enter_pincode_and_fetch ---------------------- *)
\* One browser run is described by what the site did: whether launching the
\* browser, the context and the page worked (launch_ok), whether a step of
\* the interaction inside the try block raised (error), and the responses
\* handle_response processed, in processing order.  A response is
\*   [kind, json_ok, records, items, after]
\* kind "pincode" for a URL holding 'pincode', "products" for a URL holding
\* 'ms.products' and 'protein', "other" otherwise; after = the response was
\* intercepted after the code had been typed into the page.
EmptyResult == [pincode_info |-> None, products |-> <<>>]

\* The index of the first record whose pincode equals the code, 0 if none.
ExactMatch(records, pincode) ==
    IF \E i \in 1..Len(records) : records[i].pincode = pincode
    THEN CHOOSE i \in 1..Len(records) :
            /\ records[i].pincode = pincode
            /\ \A j \in 1..(i - 1) : records[j].pincode # pincode
    ELSE 0

\* A plausible slip: the exact-match loop is skipped once a record has been
\* chosen, so an earlier partial match is never replaced.
HandleResponseFirstWins(result, resp, pincode) ==
    IF resp.kind = "pincode" THEN
        IF ~resp.json_ok \/ result.pincode_info # None THEN result
        ELSE LET e == ExactMatch(resp.records, pincode)
             IN IF e # 0
                THEN [result EXCEPT !.pincode_info = Some(resp.records[e])]
                ELSE IF resp.records # <<>>
                THEN [result EXCEPT !.pincode_info = Some(resp.records[1])]
                ELSE result
    ELSE IF resp.kind = "products" THEN
        IF resp.json_ok /\ resp.items # <<>>
        THEN [result EXCEPT !.products = result.products \o resp.items]
        ELSE result
    ELSE result

\* handle_response for one response; a location response whose body does
\* not parse changes nothing.  The statements after `await response.json()`
\* hold no await, so one response is handled in one step.
HandleResponse(result, resp, pincode) ==
    IF resp.kind = "pincode" THEN
        IF ~resp.json_ok THEN result
        ELSE LET e == ExactMatch(resp.records, pincode)
                 r1 == IF e # 0
                       THEN [result EXCEPT !.pincode_info = Some(resp.records[e])]
                       ELSE result
             IN IF r1.pincode_info = None /\ resp.records # <<>>
                THEN [r1 EXCEPT !.pincode_info = Some(resp.records[1])]
                ELSE r1
    ELSE IF resp.kind = "products" THEN
        IF resp.json_ok /\ resp.items # <<>>
        THEN [result EXCEPT !.products = result.products \o resp.items]
        ELSE result
    ELSE result

RECURSIVE HandleAll(_, _, _)
HandleAll(result, responses, pincode) ==
    IF responses = <<>> THEN result
    ELSE HandleAll(HandleResponse(result, Head(responses), pincode),
                   Tail(responses), pincode)

\* The dict _enter_pincode_and_fetch returns when the launch worked; an
\* error inside the try block is caught and the result gathered so far is
\* returned all the same.
EnterPincodeAndFetch(pincode, run) ==
    HandleAll(EmptyResult, run.responses, pincode)

(* ------------------------------ AmulAPI ------------------------------- *)
\* An instance: the session fields and the two caches.
NewAmulAPI ==
    [ substore_id |-> "", substore_name |-> "", pincode |-> NoCode,
      canonical_pincode |-> NoCode, products_cache |-> EmptyDict,
      pincode_cache |-> EmptyDict ]

\* cached_data.get('canonical_pincode', default): a live resolution has no
\* such key, written canonical_pincode = NoCode here.
GetCanonical(res, default) ==
    IF res.canonical_pincode = NoCode THEN default ELSE res.canonical_pincode

\* The dict search_pincode builds from a live record.
LiveResolution(api_get_id, info) ==
    [ pincode |-> info.pincode,
      substore_id |-> IF api_get_id # "" THEN api_get_id ELSE info.substore,
      substore_name |-> info.substore,
      city |-> info.city,
      state |-> info.state,
      canonical_pincode |-> NoCode ]

\* A plausible slip: the session is pointed at the code before the lookup
\* is known to have succeeded.
LiveFailureSetsPincode(api, pincode) ==
    [api |-> [api EXCEPT !.pincode = pincode], ret |-> None, live |-> TRUE]

\* "Could not find pincode", or an exception caught by search_pincode:
\* None is returned and the instance is as it was.
LiveFailure(api, pincode) == [api |-> api, ret |-> None, live |-> TRUE]

\* A plausible slip: a cache hit is ignored and the code is resolved anew.
SearchPincodeNoCacheRead(api, pincode, run) ==
    LET fb == FallbackSubstore(pincode)
    IN IF fb # None THEN
          [ api |-> [api EXCEPT !.pincode_cache = Put(@, pincode, fb[1]),
                                !.pincode = pincode,
                                !.substore_id = fb[1].substore_id,
                                !.substore_name = fb[1].substore_name,
                                !.canonical_pincode = GetCanonical(fb[1], pincode)],
            ret |-> fb, live |-> FALSE ]
       ELSE IF ~run.launch_ok THEN LiveFailure(api, pincode)
       ELSE LET result == EnterPincodeAndFetch(pincode, run)
            IN IF result.pincode_info # None THEN
                  LET info == result.pincode_info[1]
                      data == LiveResolution(GetSubstoreId(info.substore), info)
                  IN [ api |-> [api EXCEPT
                          !.pincode_cache = Put(@, pincode, data),
                          !.pincode = pincode,
                          !.substore_id = data.substore_id,
                          !.substore_name = data.substore_name,
                          !.canonical_pincode = pincode,
                          !.products_cache =
                              IF result.products # <<>>
                              THEN Put(@, pincode, result.products) ELSE @],
                       ret |-> Some(data), live |-> TRUE ]
               ELSE LiveFailure(api, pincode)

\* search_pincode(pincode) on instance api, the browser run being `run` if
\* one is started: the instance afterwards, the value returned and whether a
\* browser run was started.  Any exception (a failed launch) returns None.
SearchPincode(api, pincode, run) ==
    IF pincode \in DOMAIN api.pincode_cache
    THEN [api |-> api, ret |-> Some(api.pincode_cache[pincode]), live |-> FALSE]
    ELSE SearchPincodeNoCacheRead(api, pincode, run)

\* A plausible slip: on a cache miss the canonical code is left as the
\* earlier call set it.
SetPincodeCacheOnly(api, pincode, substore_id) ==
    LET a == [api EXCEPT !.pincode = pincode, !.substore_id = substore_id]
    IN IF pincode \in DOMAIN api.pincode_cache THEN
          [a EXCEPT !.canonical_pincode =
                        GetCanonical(api.pincode_cache[pincode], pincode),
                    !.substore_name = api.pincode_cache[pincode].substore_name]
       ELSE a

\* set_pincode(pincode, substore_id).
SetPincode(api, pincode, substore_id) ==
    LET a == [api EXCEPT !.pincode = pincode, !.substore_id = substore_id]
    IN IF pincode \in DOMAIN api.pincode_cache THEN
          [a EXCEPT !.canonical_pincode =
                        GetCanonical(api.pincode_cache[pincode], pincode),
                    !.substore_name = api.pincode_cache[pincode].substore_name]
       ELSE LET fb == FallbackSubstore(pincode)
            IN IF fb # None
               THEN [a EXCEPT !.canonical_pincode = GetCanonical(fb[1], pincode),
                              !.substore_name = fb[1].substore_name]
               ELSE [a EXCEPT !.canonical_pincode = pincode]

(* ------------------------ get_protein_products ------------------------ *)
\* A raw item of a product-listing response:
\*   [id, sku, avail_kind, available, inventory]
\* sku = "" stands for a missing, null or empty 'sku' (all falsy);
\* avail_kind is "int" (available holds the number), "missing" (no
\* 'available' key) or "null" (the key holds null); inventory is the
\* 'inventory_quantity' field.  name, alias, price, compare_price and images
\* are copied into the product unread and are left out.
RECURSIVE DedupFrom(_, _)
\* The raw items the loop keeps: the first item of each truthy sku.
DedupFrom(raw, seen) ==
    IF raw = <<>> THEN <<>>
    ELSE IF Head(raw).sku # "" /\ Head(raw).sku \notin seen
         THEN <<Head(raw)>> \o DedupFrom(Tail(raw), seen \cup {Head(raw).sku})
         ELSE DedupFrom(Tail(raw), seen)

\* A plausible slip: the seen-set is never consulted.
DedupRawKeepAll(raw) == SelectSeq(raw, LAMBDA it : it.sku # "")

DedupRaw(raw) == DedupFrom(raw, {})

\* item.get("available", 0)
AvailableQty(item) == IF item.avail_kind = "int" THEN item.available ELSE 0

\* A plausible slip: in_stock taken from the warehouse total.
BuildProductFromInventory(item) ==
    [ id |-> item.id, sku |-> item.sku, quantity |-> AvailableQty(item),
      in_stock |-> item.inventory > 0 ]

\* The product dict built from a kept raw item.
BuildProduct(item) ==
    [ id |-> item.id, sku |-> item.sku, quantity |-> AvailableQty(item),
      in_stock |-> AvailableQty(item) > 0 ]

\* `None > 0` raises TypeError when a kept item holds 'available': null.
ProcessRaises(raw) ==
    \E i \in 1..Len(DedupRaw(raw)) : DedupRaw(raw)[i].avail_kind = "null"

ProcessProducts(raw) ==
    [i \in 1..Len(DedupRaw(raw)) |-> BuildProduct(DedupRaw(raw)[i])]

\* The code handed to _enter_pincode_and_fetch.
FetchPincode(api) ==
    IF api.canonical_pincode # NoCode THEN api.canonical_pincode
    ELSE IF api.pincode # NoCode THEN api.pincode
    ELSE ToStr(DefaultPincodeNum)

\* A plausible slip: when the fetch fails or brings nothing, the items the
\* cache holds for the code are served.
GetProteinProductsStale(api, run) ==
    LET pincode == FetchPincode(api)
        fresh == IF run.launch_ok THEN EnterPincodeAndFetch(pincode, run).products
                 ELSE <<>>
        raw == IF fresh = <<>> /\ pincode \in DOMAIN api.products_cache
               THEN api.products_cache[pincode] ELSE fresh
    IN IF raw = <<>>
       THEN [api |-> api, ret |-> <<>>, raised |-> FALSE, typed |-> pincode]
       ELSE [ api |-> [api EXCEPT !.products_cache = Put(@, pincode, raw)],
              ret |-> IF ProcessRaises(raw) THEN <<>> ELSE ProcessProducts(raw),
              raised |-> ProcessRaises(raw),
              typed |-> pincode ]

\* get_protein_products() on instance api with browser run `run`: the
\* instance afterwards, the list returned, and whether the call raised.
GetProteinProducts(api, run) ==
    LET pincode == FetchPincode(api)
        raw == EnterPincodeAndFetch(pincode, run).products
    IN IF ~run.launch_ok \/ raw = <<>>
       THEN [api |-> api, ret |-> <<>>, raised |-> FALSE, typed |-> pincode]
       ELSE [ api |-> [api EXCEPT !.products_cache = Put(@, pincode, raw)],
              ret |-> IF ProcessRaises(raw) THEN <<>> ELSE ProcessProducts(raw),
              raised |-> ProcessRaises(raw),
              typed |-> pincode ]

(* ----------------------- _process_stock_update ------------------------ *)
\* The cache maps (user_id, sku) to [in_stock, quantity]; 'initialized' is
\* always True in a stored entry and is left out.
CacheEntry(product) ==
    [in_stock |-> product.in_stock, quantity |-> product.quantity]

\* A plausible slip: the low-stock test written `< 10`.
NotificationTypeStrictLimit(prev, cur) ==
    LET change == cur.quantity - prev.quantity
    IN IF cur.in_stock /\ ~prev.in_stock THEN "back_in_stock"
       ELSE IF cur.in_stock /\ prev.in_stock /\ cur.quantity # prev.quantity THEN
            IF change > 0 THEN "stock_increased"
            ELSE IF change < 0 /\ cur.quantity < LowStockLimit THEN "low_stock"
            ELSE IF change < 0 THEN "stock_decreased"
            ELSE ""
       ELSE IF ~cur.in_stock /\ prev.in_stock THEN "sold_out"
       ELSE ""

\* A plausible slip: the `current_quantity != prev_quantity` test is lost
\* and an unchanged quantity counts as an increase.
NotificationTypeOnUnchanged(prev, cur) ==
    LET change == cur.quantity - prev.quantity
    IN IF cur.in_stock /\ ~prev.in_stock THEN "back_in_stock"
       ELSE IF cur.in_stock /\ prev.in_stock THEN
            IF change >= 0 THEN "stock_increased"
            ELSE IF cur.quantity <= LowStockLimit THEN "low_stock"
            ELSE "stock_decreased"
       ELSE IF ~cur.in_stock /\ prev.in_stock THEN "sold_out"
       ELSE ""

\* The branch chain of lines 150-176: the notification type, "" for none.
NotificationType(prev, cur) ==
    LET change == cur.quantity - prev.quantity
    IN IF cur.in_stock /\ ~prev.in_stock THEN "back_in_stock"
       ELSE IF cur.in_stock /\ prev.in_stock /\ cur.quantity # prev.quantity THEN
            IF change > 0 THEN "stock_increased"
            ELSE IF change < 0 /\ cur.quantity <= LowStockLimit THEN "low_stock"
            ELSE IF change < 0 THEN "stock_decreased"
            ELSE ""
       ELSE IF ~cur.in_stock /\ prev.in_stock THEN "sold_out"
       ELSE ""

\* A plausible slip: the change computed as previous minus current.
NotificationSwappedChange(user_id, product, prev) ==
    [ user_id |-> user_id, sku |-> product.sku,
      kind |-> NotificationType(prev, CacheEntry(product)),
      quantity |-> product.quantity,
      quantity_change |-> prev.quantity - product.quantity ]

\* What the call hands to _send_notification.
Notification(user_id, product, prev) ==
    [ user_id |-> user_id, sku |-> product.sku,
      kind |-> NotificationType(prev, CacheEntry(product)),
      quantity |-> product.quantity,
      quantity_change |-> product.quantity - prev.quantity ]

\* A plausible slip: the first observation is diffed against "out of stock".
ProcessStockUpdateNoBaseline(cache, user_id, product) ==
    LET key == <<user_id, product.sku>>
        prev == IF key \in DOMAIN cache THEN cache[key]
                ELSE [in_stock |-> FALSE, quantity |-> 0]
        n == Notification(user_id, product, prev)
    IN [ cache |-> Put(cache, key, CacheEntry(product)),
         notify |-> IF n.kind # "" THEN Some(n) ELSE None ]

\* A plausible slip: the entry is rewritten only when the in-stock flag
\* flips, so a changed quantity is diffed against an older one.
ProcessStockUpdateFlagOnly(cache, user_id, product) ==
    LET key == <<user_id, product.sku>>
    IN IF key \notin DOMAIN cache
       THEN [cache |-> Put(cache, key, CacheEntry(product)), notify |-> None]
       ELSE LET n == Notification(user_id, product, cache[key])
            IN [ cache |-> IF cache[key].in_stock # product.in_stock
                           THEN Put(cache, key, CacheEntry(product)) ELSE cache,
                 notify |-> IF n.kind # "" THEN Some(n) ELSE None ]

\* A plausible slip: the entry is updated field by field and only the
\* quantity is written before the send, the flag being left for later.
ProcessStockUpdateQuantityFirst(cache, user_id, product) ==
    LET key == <<user_id, product.sku>>
    IN IF key \notin DOMAIN cache
       THEN [cache |-> Put(cache, key, CacheEntry(product)), notify |-> None]
       ELSE LET n == Notification(user_id, product, cache[key])
            IN [ cache |-> Put(cache, key, [in_stock |-> cache[key].in_stock,
                                            quantity |-> product.quantity]),
                 notify |-> IF n.kind # "" THEN Some(n) ELSE None ]

\* A plausible slip: when a notification is due the entry is left to be
\* written after the send, and is never written when the send fails.
ProcessStockUpdateCacheAfterSend(cache, user_id, product) ==
    LET key == <<user_id, product.sku>>
    IN IF key \notin DOMAIN cache
       THEN [cache |-> Put(cache, key, CacheEntry(product)), notify |-> None]
       ELSE LET n == Notification(user_id, product, cache[key])
            IN IF n.kind # "" THEN [cache |-> cache, notify |-> Some(n)]
               ELSE [cache |-> Put(cache, key, CacheEntry(product)), notify |-> None]

\* _process_stock_update up to its await: the cache afterwards and the
\* notification to send, if any.
ProcessStockUpdate(cache, user_id, product) ==
    LET key == <<user_id, product.sku>>
    IN IF key \notin DOMAIN cache
       THEN [cache |-> Put(cache, key, CacheEntry(product)), notify |-> None]
       ELSE LET n == Notification(user_id, product, cache[key])
            IN [ cache |-> Put(cache, key, CacheEntry(product)),
                 notify |-> IF n.kind # "" THEN Some(n) ELSE None ]

(* ============================ the state =============================== *)
VARIABLES
    \* database/db.py
    users,          \* users table: user_id -> [is_active, pincode, substore_id]
    subs,           \* subscriptions with is_active = 1: {<<user_id, sku>>}
    products_tbl,   \* products table: product_id -> sku (sku is UNIQUE)
    alerts,         \* stock_alerts table, in insertion order
    \* scheduler/stock_monitor.py
    running,        \* StockMonitor.running
    stock_cache,    \* StockMonitor._stock_cache
    pc,             \* where the monitor task stands
    parts,          \* substore_users still to check, the head being checked
    uidx,           \* index of the user being checked in the head's users
    work,           \* subscriptions of that user still to process
    snapshot,       \* stock_by_sku of the partition being checked
    pending,        \* the notification whose send is awaited
    ticks,          \* calls of check_all_stocks so far
    \* bot/handlers.py
    api,            \* the module-level AmulAPI instance of the handlers
    cpc,            \* where the update-processing task stands
    chats,          \* handler runs so far
    \* asyncio with nest_asyncio
    stack,          \* tasks inside a nested run_until_complete, innermost last
    mfetch,         \* the monitor's browser run: None or <<[typed, done]>>
    cfetch,         \* the handlers' browser run: None or <<[typed, done]>>
    \* history
    lastObs,        \* the call of _process_stock_update just made, if any
    observed,       \* keys _process_stock_update was ever called for
    blockedAt,      \* user_id -> the tick in which a send found the user blocked
    tickSends,      \* key -> send_message calls of the current tick
    tickParts,      \* partitions grouped by the current tick
    tickFetched,    \* partitions whose fetch the current tick started
    tickRaised,     \* partitions whose check raised in the current tick
    tickChecked,    \* partitions whose check returned in the current tick
    tickEmpty,      \* partitions whose fetch returned [] in the current tick
    lastSeen,       \* key -> the values of the sku in the last snapshot holding it
    lastSend,       \* the send that just returned: its key, outcome and quantity
    dropped,        \* key -> the pair whose send failed, until the key is checked again
    brRun,          \* caller -> position of its _enter_pincode_and_fetch run
    browsers,       \* the browsers launched so far: "open" or "closed"
    brLast,         \* caller -> how its last finished run ended
    seenIn,         \* key -> the partition whose snapshot the key's cache entry is from
    unsubbed,       \* keys unsubscribed by a toggle and not subscribed again since
    resubbed,       \* keys subscribed again after that, until they are next checked
    stopped,        \* users whose confirm_stop completed and who have not subscribed since
    lastCall,       \* the last call on an AmulAPI instance and its result
    firstRes,       \* code -> the first resolution search_pincode returned
    calls,          \* calls made in the pure specifications
    inputs          \* the inputs a run of a pure specification draws from

dbVars == <<users, subs, products_tbl, alerts>>
monVars == <<running, stock_cache, pc, parts, uidx, work, snapshot, pending, ticks>>
chatVars == <<api, cpc, chats>>
loopVars == <<stack, mfetch, cfetch>>
tickHist == <<tickSends, tickParts, tickFetched, tickRaised, tickChecked, tickEmpty>>
obsHist == <<lastObs, observed, blockedAt>>
sendHist == <<lastSeen, lastSend, dropped>>
brVars == <<brRun, browsers, brLast>>
chatHist == <<seenIn, unsubbed, resubbed, stopped>>
callHist == <<lastCall, firstRes, calls, inputs>>
vars == <<dbVars, monVars, chatVars, loopVars, tickHist, obsHist, sendHist, brVars, chatHist, callHist>>

(* ------------------------- the model's universe ----------------------- *)
Users == {1, 2}
SKUs == {"s1", "s2"}

\* Stored locations a user row can hold after process_pincode: the raw code
\* and the substore_id of its resolution.
SysLocs ==
    { [pincode |-> NoCode, substore_id |-> ""],
      [pincode |-> ToStr(400063), substore_id |-> SUBSTORE_IDS["mumbai-br"]],
      [pincode |-> ToStr(411001), substore_id |-> SUBSTORE_IDS["pune-br"]] }

\* Raw items the site serves in the system specification.
SysItem(id, sku, kind, q) ==
    [id |-> id, sku |-> sku, avail_kind |-> kind, available |-> q, inventory |-> 7]

SysQtys == {0, 5, 20}
SysItems1 == {SysItem("p1", "s1", "int", q) : q \in SysQtys}
               \cup {SysItem("p1", "s1", "null", 0), SysItem("p3", "s1", "int", 5)}
SysItems2 == {SysItem("p2", "s2", "int", q) : q \in SysQtys}

SysRawLists ==
    {<<>>} \cup {<<a>> : a \in SysItems1 \cup SysItems2}
           \cup {<<a, b>> : a \in {x \in SysItems1 : x.id = "p1" /\ x.avail_kind = "int"},
                           b \in SysItems2}
           \cup {<<SysItem("p1", "s1", "int", 5), SysItem("p1", "s1", "int", 20)>>}

ProductsResponse(items, after) ==
    [kind |-> "products", json_ok |-> TRUE, records |-> <<>>, items |-> items,
     after |-> after]

\* Browser runs of a catalog fetch in the concurrency specification.
ConcRuns ==
    {[launch_ok |-> FALSE, error |-> FALSE, responses |-> <<>>]}
    \cup {[launch_ok |-> TRUE, error |-> FALSE,
           responses |-> <<ProductsResponse(<<SysItem("p1", "s1", "int", q)>>, TRUE)>>] :
           q \in {0, 5}}

\* Browser runs of a catalog fetch in the system specification.
SysRuns ==
    {[launch_ok |-> FALSE, error |-> FALSE, responses |-> <<>>]}
    \cup {[launch_ok |-> TRUE, error |-> FALSE,
           responses |-> <<ProductsResponse(raw, TRUE)>>] : raw \in SysRawLists}

(* --------------------------- database/db.py --------------------------- *)
RECURSIVE ActiveFrom(_, _)
\* get_active_users(): rows with is_active = 1 and pincode not NULL, in
\* user_id order, from user id u on.
ActiveFrom(tbl, u) ==
    IF u \notin DOMAIN tbl THEN <<>>
    ELSE IF tbl[u].is_active /\ tbl[u].pincode # NoCode
         THEN <<[user_id |-> u, pincode |-> tbl[u].pincode,
                 substore_id |-> tbl[u].substore_id]>> \o ActiveFrom(tbl, u + 1)
         ELSE ActiveFrom(tbl, u + 1)

\* A plausible slip: the query forgets `is_active = 1`.
GetActiveUsersAnyFlag(tbl) ==
    ActiveFrom([u \in DOMAIN tbl |-> [tbl[u] EXCEPT !.is_active = TRUE]], 1)

GetActiveUsers(tbl) == ActiveFrom(tbl, 1)

\* upsert_product: ON CONFLICT(product_id) updates the row and leaves its
\* sku; a new product_id whose sku another row holds violates UNIQUE(sku)
\* and raises sqlite3.IntegrityError.
UpsertRaises(tbl, p) ==
    p.id \notin DOMAIN tbl /\ \E i \in DOMAIN tbl : tbl[i] = p.sku

UpsertProduct(tbl, p) ==
    IF p.id \in DOMAIN tbl \/ UpsertRaises(tbl, p) THEN tbl ELSE Put(tbl, p.id, p.sku)

RECURSIVE UpsertAll(_, _)
\* The upsert loop over a product list: the table afterwards (the upserts
\* before a failing one are committed) and whether one raised.
UpsertAll(tbl, products) ==
    IF products = <<>> THEN [tbl |-> tbl, raised |-> FALSE]
    ELSE IF UpsertRaises(tbl, Head(products)) THEN [tbl |-> tbl, raised |-> TRUE]
    ELSE UpsertAll(UpsertProduct(tbl, Head(products)), Tail(products))

\* get_user_subscriptions(user_id), as the set of subscribed skus.
GetUserSubscriptions(s, u) == {k[2] : k \in {x \in s : x[1] = u}}

(* ---------------------- check_all_stocks: grouping -------------------- *)
RECURSIVE GroupInto(_, _)
\* substore_users as a list of [substore_id, users] in insertion order.
GroupInto(groups, active) ==
    IF active = <<>> THEN groups
    ELSE LET usr == Head(active)
             sid == usr.substore_id
         IN IF sid = "" THEN GroupInto(groups, Tail(active))
            ELSE IF \E i \in 1..Len(groups) : groups[i].substore_id = sid
            THEN GroupInto(
                   [i \in 1..Len(groups) |->
                      IF groups[i].substore_id = sid
                      THEN [groups[i] EXCEPT !.users = Append(@, usr)]
                      ELSE groups[i]],
                   Tail(active))
            ELSE GroupInto(Append(groups, [substore_id |-> sid, users |-> <<usr>>]),
                           Tail(active))

\* A plausible slip: one group per user, users of one partition not merged.
GroupPerUser(active) ==
    LET keep == SelectSeq(active, LAMBDA usr : usr.substore_id # "")
    IN [i \in 1..Len(keep) |->
           [substore_id |-> keep[i].substore_id, users |-> <<keep[i]>>]]

GroupBySubstore(active) == GroupInto(<<>>, active)

\* stock_by_sku = {p["sku"]: p for p in products}
StockBySku(products) ==
    [s \in {products[i].sku : i \in 1..Len(products)} |->
        products[CHOOSE i \in 1..Len(products) :
                    /\ products[i].sku = s
                    /\ \A j \in (i + 1)..Len(products) : products[j].sku # s]]

(* ====================== the monitor and the handlers ================== *)
BaseProducts == ("p1" :> "s1") @@ ("p2" :> "s2")

InitPure ==
    /\ lastCall = None /\ firstRes = EmptyDict /\ calls = 0 /\ inputs = {}

\* The callers whose fetches can be in progress together: the monitor task
\* and a chat handler (nested run_until_complete).
Callers == {"mon", "chat"}

\* No _enter_pincode_and_fetch run in progress, no browser launched.
BrIdle == [pos |-> "idle", browser |-> 0, raised |-> FALSE, n |-> 0]

InitIdle ==
    /\ brRun = [c \in Callers |-> BrIdle] /\ browsers = <<>>
    /\ brLast = [c \in Callers |-> None]
    /\ alerts = <<>> /\ running = FALSE /\ stock_cache = EmptyDict
    /\ pc = "init" /\ parts = <<>> /\ uidx = 0 /\ work = {}
    /\ snapshot = EmptyDict /\ pending = None /\ ticks = 0
    /\ api = NewAmulAPI /\ cpc = "idle" /\ chats = 0
    /\ stack = <<>> /\ mfetch = None /\ cfetch = None
    /\ lastObs = None /\ observed = {} /\ blockedAt = EmptyDict
    /\ lastSeen = EmptyDict /\ lastSend = None /\ dropped = EmptyDict
    /\ seenIn = EmptyDict /\ unsubbed = {} /\ resubbed = {} /\ stopped = {}
    /\ tickSends = EmptyDict /\ tickParts = {} /\ tickFetched = {}
    /\ tickRaised = {} /\ tickChecked = {} /\ tickEmpty = {}

\* The process starts with users who have set a location (or not yet) and
\* hold subscriptions; the products table holds the products they listed.
UserRow(l) ==
    [is_active |-> TRUE, pincode |-> l.pincode, substore_id |-> l.substore_id]

Init ==
    /\ users \in {[u \in Users |-> IF u = 1 THEN UserRow(l1) ELSE UserRow(l2)] :
                     l1 \in {l \in SysLocs : l.pincode = ToStr(400063)},
                     l2 \in SysLocs}
    /\ subs = {<<1, "s1">>, <<1, "s2">>, <<2, "s1">>}
    /\ products_tbl = BaseProducts
    /\ InitIdle
    /\ InitPure

\* The positions at which the monitor task has yielded to the event loop:
\* an await, or the nested run_until_complete of its fetch.
Suspended == {"fetching", "sending", "pause", "sleep", "exited"}

Top(st) == IF st = <<>> THEN "" ELSE st[Len(st)]
Pop(st) == SubSeq(st, 1, Len(st) - 1)

\* The fresh AmulAPI() of _check_substore_stock with pincode set from the
\* first user of the partition.
MonitorApi(group) == [NewAmulAPI EXCEPT !.pincode = group.users[1].pincode]

\* A plausible slip: no try/except around one partition's check, so the
\* exception ends check_all_stocks and is caught by start().
SubstoreErrorAbortsTick(ps) == [pc |-> "sleep", parts |-> <<>>]

\* A plausible slip: the exception of a partition's check is caught nowhere
\* and ends the monitor task.
SubstoreErrorEndsLoop(ps) == [pc |-> "exited", parts |-> <<>>]

\* except Exception in the partition loop: log, go on with the next one.
SubstoreErrorNext(ps) == [pc |-> "substore", parts |-> Tail(ps)]

\* A plausible slip: a subscribed sku missing from the snapshot is recorded
\* as out of stock.
OnMissingSkuReset(cache, key) ==
    Put(cache, key, [in_stock |-> FALSE, quantity |-> 0])

\* A plausible slip: an empty product list is taken for "everything sold
\* out" and the entries of the partition's users are reset.
OnEmptySnapshotReset(cache, group) ==
    [k \in DOMAIN cache |->
        IF \E j \in 1..Len(group.users) : group.users[j].user_id = k[1]
        THEN [in_stock |-> FALSE, quantity |-> 0] ELSE cache[k]]

\* `if not products: return` leaves the cache as it is.
OnEmptySnapshot(cache, group) == cache

\* `if not product: continue` leaves the cache as it is.
OnMissingSku(cache, key) == cache

\* A plausible slip: the loop of start() goes round without the interval
\* sleep.
TickEndNoSleep == "loop"

\* Where the monitor stands once check_all_stocks has returned or raised:
\* in the interval sleep of start().
TickEnd == "sleep"

\* start(): running = True, then the loop.
Start ==
    /\ pc = "init"
    /\ running' = TRUE
    /\ pc' = "loop"
    /\ UNCHANGED <<stock_cache, parts, uidx, work, snapshot, pending, ticks>>
    /\ UNCHANGED <<dbVars, chatVars, loopVars, tickHist, obsHist, sendHist, brVars, chatHist, callHist>>

\* stop(), called from another task while the monitor is suspended.
Stop ==
    /\ pc \in Suspended /\ pc # "exited"
    /\ running
    /\ running' = FALSE
    /\ UNCHANGED <<stock_cache, pc, parts, uidx, work, snapshot, pending, ticks>>
    /\ UNCHANGED <<dbVars, chatVars, loopVars, tickHist, obsHist, sendHist, brVars, chatHist, callHist>>

\* A plausible slip: the loop written `while True:`.
WhileRunningAlways(flag) == TRUE

\* The loop condition `while self.running:`.
WhileRunning(flag) == flag

\* `while self.running:` and the start of check_all_stocks: read the active
\* users and group them by substore_id.  A failing get_active_users (an
\* sqlite3 error) raises out of check_all_stocks into the except of start().
LoopTest(cap) ==
    /\ pc = "loop"
    /\ IF ~WhileRunning(running) THEN
          /\ pc' = "exited"
          /\ UNCHANGED <<parts, ticks, tickHist>>
       ELSE
          /\ ticks < cap
          /\ ticks' = ticks + 1
          /\ \E db_ok \in BOOLEAN :
               LET groups == IF db_ok THEN GroupBySubstore(GetActiveUsers(users))
                             ELSE <<>>
               IN /\ parts' = groups
                  /\ pc' = IF groups = <<>> THEN TickEnd ELSE "substore"
                  /\ tickParts' = {groups[i].substore_id : i \in 1..Len(groups)}
          /\ tickSends' = EmptyDict
          /\ tickFetched' = {} /\ tickRaised' = {} /\ tickChecked' = {}
          /\ tickEmpty' = {}
    /\ UNCHANGED <<running, stock_cache, uidx, work, snapshot, pending>>
    /\ UNCHANGED <<dbVars, chatVars, loopVars, obsHist, sendHist, brVars, chatHist, callHist>>

\* The partition loop: the next _check_substore_stock starts its fetch
\* (get_protein_products -> _run_async -> run_until_complete), or the tick
\* ends and the interval sleep begins.
CheckSubstore ==
    /\ pc = "substore"
    /\ IF parts = <<>> THEN
          /\ pc' = TickEnd
          /\ UNCHANGED <<loopVars, tickFetched>>
       ELSE
          /\ pc' = "fetching"
          /\ mfetch' = Some([typed |-> FetchPincode(MonitorApi(Head(parts))),
                             done |-> FALSE])
          /\ stack' = Append(stack, "mon")
          /\ tickFetched' = tickFetched \cup {Head(parts).substore_id}
          /\ UNCHANGED cfetch
    /\ UNCHANGED <<running, stock_cache, parts, uidx, work, snapshot, pending, ticks>>
    /\ UNCHANGED <<dbVars, chatVars, obsHist, sendHist, brVars, chatHist, callHist>>
    /\ UNCHANGED <<tickSends, tickParts, tickRaised, tickChecked, tickEmpty>>

\* The monitor's _enter_pincode_and_fetch coroutine finishes.
MonFetchDone ==
    /\ pc = "fetching"
    /\ mfetch # None /\ ~mfetch[1].done
    /\ mfetch' = Some([mfetch[1] EXCEPT !.done = TRUE])
    /\ UNCHANGED <<stack, cfetch>>
    /\ UNCHANGED <<dbVars, monVars, chatVars, tickHist, obsHist, sendHist, brVars, chatHist, callHist>>

\* run_until_complete returns in the monitor: the product list is built,
\* the products are upserted and the user loop begins.
MonFetchReturn(runs) ==
    /\ pc = "fetching"
    /\ mfetch # None /\ mfetch[1].done
    /\ Top(stack) = "mon"
    /\ stack' = Pop(stack)
    /\ mfetch' = None
    /\ UNCHANGED cfetch
    /\ \E run \in runs :
         LET sid == Head(parts).substore_id
             r == GetProteinProducts(MonitorApi(Head(parts)), run)
             up == UpsertAll(products_tbl, r.ret)
         IN IF r.raised \/ (r.ret # <<>> /\ up.raised) THEN
               /\ products_tbl' = IF r.raised THEN products_tbl ELSE up.tbl
               /\ pc' = SubstoreErrorNext(parts).pc
               /\ parts' = SubstoreErrorNext(parts).parts
               /\ tickRaised' = tickRaised \cup {sid}
               /\ UNCHANGED <<stock_cache, uidx, snapshot, tickChecked, tickEmpty>>
            ELSE IF r.ret = <<>> THEN
               /\ pc' = "pause"
               /\ stock_cache' = OnEmptySnapshot(stock_cache, Head(parts))
               /\ tickChecked' = tickChecked \cup {sid}
               /\ tickEmpty' = tickEmpty \cup {sid}
               /\ UNCHANGED <<products_tbl, parts, uidx, snapshot, tickRaised>>
            ELSE
               /\ products_tbl' = up.tbl
               /\ snapshot' = StockBySku(r.ret)
               /\ uidx' = 1
               /\ pc' = "nextuser"
               /\ UNCHANGED <<stock_cache, parts, tickRaised, tickChecked, tickEmpty>>
    /\ UNCHANGED <<users, subs, alerts, running, work, pending, ticks>>
    /\ UNCHANGED <<chatVars, obsHist, sendHist, brVars, chatHist, callHist>>
    /\ UNCHANGED <<tickSends, tickParts, tickFetched>>

\* `for user in users:` reads the user's subscriptions, or the check of the
\* partition returns and the pause between partitions begins.
NextUser ==
    /\ pc = "nextuser"
    /\ IF uidx > Len(Head(parts).users) THEN
          /\ pc' = "pause"
          /\ tickChecked' = tickChecked \cup {Head(parts).substore_id}
          /\ uidx' = 0 /\ snapshot' = EmptyDict
          /\ UNCHANGED work
       ELSE
          /\ work' = GetUserSubscriptions(subs, Head(parts).users[uidx].user_id)
          /\ pc' = "nextsub"
          /\ UNCHANGED <<uidx, snapshot, tickChecked>>
    /\ lastObs' = None /\ lastSend' = None
    /\ UNCHANGED <<running, stock_cache, parts, pending, ticks>>
    /\ UNCHANGED <<dbVars, chatVars, loopVars, observed, blockedAt, callHist>>
    /\ UNCHANGED <<lastSeen, dropped, brVars, chatHist>>
    /\ UNCHANGED <<tickSends, tickParts, tickFetched, tickRaised, tickEmpty>>

\* `for sub in subscriptions:` looks the sku up in the snapshot and calls
\* _process_stock_update, which runs up to its send.
NextSub ==
    /\ pc = "nextsub"
    /\ IF work = {} THEN
          /\ uidx' = uidx + 1
          /\ pc' = "nextuser"
          /\ lastObs' = None
          /\ UNCHANGED <<work, stock_cache, pending, observed, tickSends, lastSeen,
                         dropped, seenIn, resubbed>>
       ELSE \E sku \in work :
          /\ work' = work \ {sku}
          /\ UNCHANGED uidx
          /\ IF sku \notin DOMAIN snapshot THEN
                /\ stock_cache' =
                      OnMissingSku(stock_cache, <<Head(parts).users[uidx].user_id, sku>>)
                /\ lastObs' = None
                /\ UNCHANGED <<pc, pending, observed, tickSends, lastSeen, dropped,
                               seenIn, resubbed>>
             ELSE
                LET uid == Head(parts).users[uidx].user_id
                    key == <<uid, sku>>
                    r == ProcessStockUpdate(stock_cache, uid, snapshot[sku])
                IN /\ stock_cache' = r.cache
                   /\ lastObs' = Some([user_id |-> uid, sku |-> sku,
                                        first |-> key \notin observed,
                                        prev |-> IF key \in DOMAIN stock_cache
                                                 THEN Some(stock_cache[key])
                                                 ELSE None,
                                        cur |-> CacheEntry(snapshot[sku]),
                                        notify |-> r.notify,
                                        seen |-> IF key \in DOMAIN lastSeen
                                                 THEN Some(lastSeen[key])
                                                 ELSE None,
                                        afterDrop |-> IF key \in DOMAIN dropped
                                                      THEN Some(dropped[key])
                                                      ELSE None,
                                        part |-> Head(parts).substore_id,
                                        from |-> IF key \in DOMAIN seenIn
                                                 THEN Some(seenIn[key])
                                                 ELSE None,
                                        resub |-> key \in resubbed,
                                        stopped |-> uid \in stopped])
                   /\ seenIn' = Put(seenIn, key, Head(parts).substore_id)
                   /\ resubbed' = resubbed \ {key}
                   /\ dropped' = [k \in DOMAIN dropped \ {key} |-> dropped[k]]
                   /\ observed' = observed \cup {key}
                   /\ lastSeen' =
                        Put(lastSeen, key,
                            [in_stock |-> snapshot[sku].quantity > 0,
                             quantity |-> snapshot[sku].quantity])
                   /\ pending' = r.notify
                   /\ pc' = IF r.notify = None THEN "nextsub" ELSE "sending"
                   /\ tickSends' =
                        IF r.notify = None THEN tickSends
                        ELSE Put(tickSends, key,
                                 IF key \in DOMAIN tickSends
                                 THEN tickSends[key] + 1 ELSE 1)
    /\ UNCHANGED <<running, parts, snapshot, ticks>>
    /\ lastSend' = None
    /\ UNCHANGED <<dbVars, chatVars, loopVars, blockedAt, brVars, callHist>>
    /\ UNCHANGED <<unsubbed, stopped>>
    /\ UNCHANGED <<tickParts, tickFetched, tickRaised, tickChecked, tickEmpty>>

\* A plausible slip: the alert is recorded in a `finally`, whatever the
\* send did.
AlertsAfterSendAlways(rows, outcome, n) ==
    Append(rows, [user_id |-> n.user_id, sku |-> n.sku, quantity |-> n.quantity])

\* add_stock_alert(user_id, product["sku"], product["quantity"]) is the
\* statement after the awaited send_message inside the try.
AlertsAfterSend(rows, outcome, n) ==
    IF outcome = "ok"
    THEN Append(rows, [user_id |-> n.user_id, sku |-> n.sku, quantity |-> n.quantity])
    ELSE rows

\* bot.send_message returns or raises TelegramError: "ok" records the
\* alert, "blocked" (the error text holds 'blocked') deactivates the user,
\* "failed" is any other TelegramError.
\* "raised" is an exception that is no TelegramError (add_stock_alert
\* failing after the send): it leaves _check_substore_stock and is caught in
\* the partition loop.
SendReturn ==
    /\ pc = "sending"
    /\ \E outcome \in {"ok", "blocked", "failed", "raised"} :
         /\ outcome = "ok" => Len(alerts) < MaxAlerts
         /\ alerts' = AlertsAfterSend(alerts, outcome, pending[1])
         /\ users' = IF outcome = "blocked"
                     THEN [users EXCEPT ![pending[1].user_id].is_active = FALSE]
                     ELSE users
         /\ blockedAt' = IF outcome = "blocked"
                         THEN Put(blockedAt, pending[1].user_id, ticks)
                         ELSE blockedAt
         /\ lastSend' = Some([user_id |-> pending[1].user_id, sku |-> pending[1].sku,
                              outcome |-> outcome,
                              quantity |-> lastObs[1].cur.quantity])
         /\ dropped' = IF outcome = "failed"
                       THEN Put(dropped, <<pending[1].user_id, pending[1].sku>>,
                                lastObs[1].cur)
                       ELSE dropped
         /\ IF outcome = "raised" THEN
               /\ pc' = SubstoreErrorNext(parts).pc
               /\ parts' = SubstoreErrorNext(parts).parts
               /\ tickRaised' = tickRaised \cup {Head(parts).substore_id}
               /\ uidx' = 0 /\ work' = {} /\ snapshot' = EmptyDict
            ELSE
               /\ pc' = "nextsub"
               /\ UNCHANGED <<parts, uidx, work, snapshot, tickRaised>>
    /\ pending' = None
    /\ lastObs' = None
    /\ UNCHANGED <<subs, products_tbl>>
    /\ UNCHANGED <<running, stock_cache, ticks>>
    /\ UNCHANGED <<chatVars, loopVars, observed, lastSeen, brVars, chatHist, callHist>>
    /\ UNCHANGED <<tickSends, tickParts, tickFetched, tickChecked, tickEmpty>>

\* asyncio.sleep(2) after a partition's check returns.
Pause ==
    /\ pc = "pause"
    /\ parts' = Tail(parts)
    /\ pc' = "substore"
    /\ UNCHANGED <<running, stock_cache, uidx, work, snapshot, pending, ticks>>
    /\ UNCHANGED <<dbVars, chatVars, loopVars, tickHist, obsHist, sendHist, brVars, chatHist, callHist>>

\* asyncio.sleep(STOCK_CHECK_INTERVAL * 60) returns.
Sleep ==
    /\ pc = "sleep"
    /\ pc' = "loop"
    /\ UNCHANGED <<running, stock_cache, parts, uidx, work, snapshot, pending, ticks>>
    /\ UNCHANGED <<dbVars, chatVars, loopVars, tickHist, obsHist, sendHist, brVars, chatHist, callHist>>

\* _show_products_list for a user with a location: set_pincode, then
\* get_protein_products starts its browser run inside a nested
\* run_until_complete.  A handler runs only while the monitor is suspended.
ChatFetchStart ==
    /\ cpc = "idle"
    /\ pc \in Suspended
    /\ chats < MaxChat
    /\ \E u \in Users :
         /\ users[u].pincode # NoCode
         /\ api' = SetPincode(api, users[u].pincode, users[u].substore_id)
    /\ cfetch' = Some([typed |-> FetchPincode(api'), done |-> FALSE])
    /\ stack' = Append(stack, "chat")
    /\ cpc' = "fetching"
    /\ chats' = chats + 1
    /\ UNCHANGED mfetch
    /\ UNCHANGED <<dbVars, monVars, tickHist, obsHist, sendHist, brVars, chatHist, callHist>>

\* The handler's _enter_pincode_and_fetch coroutine finishes.
ChatFetchDone ==
    /\ cpc = "fetching"
    /\ cfetch # None /\ ~cfetch[1].done
    /\ cfetch' = Some([cfetch[1] EXCEPT !.done = TRUE])
    /\ UNCHANGED <<stack, mfetch>>
    /\ UNCHANGED <<dbVars, monVars, chatVars, tickHist, obsHist, sendHist, brVars, chatHist, callHist>>

\* run_until_complete returns in the handler: the products are upserted
\* (an exception is caught by the handler's try) and the list is shown.
ChatFetchReturn(runs) ==
    /\ cpc = "fetching"
    /\ pc \in Suspended
    /\ cfetch # None /\ cfetch[1].done
    /\ Top(stack) = "chat"
    /\ stack' = Pop(stack)
    /\ cfetch' = None
    /\ cpc' = "idle"
    /\ \E run \in runs :
         LET r == GetProteinProducts(api, run)
         IN /\ api' = r.api
            /\ products_tbl' = IF r.raised THEN products_tbl
                               ELSE UpsertAll(products_tbl, r.ret).tbl
    /\ UNCHANGED <<users, subs, alerts, chats, mfetch>>
    /\ UNCHANGED <<monVars, tickHist, obsHist, sendHist, brVars, chatHist, callHist>>

\* The steps of the monitor task itself.
MonitorSteps(runs, cap) ==
    \/ Start \/ LoopTest(cap) \/ CheckSubstore \/ MonFetchDone
    \/ MonFetchReturn(runs) \/ NextUser \/ NextSub \/ SendReturn \/ Pause \/ Sleep

MonitorNext(runs, cap) == MonitorSteps(runs, cap) \/ Stop

ChatNext(runs) == ChatFetchStart \/ ChatFetchDone \/ ChatFetchReturn(runs)

Next == MonitorNext(SysRuns, MaxTicks)

Spec == Init /\ [][Next]_vars

ConcNext == MonitorNext(ConcRuns, MaxTicks) \/ ChatNext(ConcRuns)

InitConc ==
    /\ users = [u \in Users |->
                  IF u = 1
                  THEN UserRow([pincode |-> ToStr(400063),
                                substore_id |-> SUBSTORE_IDS["mumbai-br"]])
                  ELSE UserRow([pincode |-> ToStr(411001),
                                substore_id |-> SUBSTORE_IDS["pune-br"]])]
    /\ subs = {<<1, "s1">>}
    /\ products_tbl = BaseProducts
    /\ InitIdle
    /\ InitPure

SpecConc == InitConc /\ [][ConcNext]_vars

(* ===================== the monitor over more ticks ==================== *)
\* Browser runs of a catalog fetch: a failed launch, one product with 0 or
\* 5 units, and one whose 'available' is null (get_protein_products raises).
LoopRuns ==
    ConcRuns
    \cup {[launch_ok |-> TRUE, error |-> FALSE,
           responses |-> <<ProductsResponse(<<SysItem("p1", "s1", "null", 0)>>, TRUE)>>]}

InitLoop ==
    /\ users = [u \in Users |->
                  IF u = 1
                  THEN UserRow([pincode |-> ToStr(400063),
                                substore_id |-> SUBSTORE_IDS["mumbai-br"]])
                  ELSE UserRow([pincode |-> ToStr(411001),
                                substore_id |-> SUBSTORE_IDS["pune-br"]])]
    /\ subs = {<<1, "s1">>, <<2, "s1">>}
    /\ products_tbl = BaseProducts
    /\ InitIdle
    /\ InitPure

LoopNext == MonitorNext(LoopRuns, MaxLoopTicks)

\* Every fetch and every send returns and every sleep elapses: the steps of
\* the monitor task are taken when they stay possible.
SpecLoop ==
    InitLoop /\ [][LoopNext]_vars /\ WF_vars(MonitorSteps(LoopRuns, MaxLoopTicks))

(* ================= _process_stock_update on its own =================== *)
\* The products one sku can show: every quantity of -1..MaxQty, and a
\* missing 'available' field.
DiffItems ==
    {SysItem("p1", "s1", "int", q) : q \in -1..MaxQty}
        \cup {SysItem("p1", "s1", "missing", 0)}

InitDb ==
    /\ users = [u \in Users |-> UserRow([pincode |-> NoCode, substore_id |-> ""])]
    /\ subs = {}
    /\ products_tbl = EmptyDict

InitDiff == InitDb /\ InitIdle /\ InitPure

\* One observation of (user 1, s1): the product built by
\* get_protein_products from the item goes through _process_stock_update.
DiffStep ==
    /\ \E item \in DiffItems :
         LET product == BuildProduct(item)
             key == <<1, product.sku>>
             r == ProcessStockUpdate(stock_cache, 1, product)
         IN /\ stock_cache' = r.cache
            /\ lastObs' = Some([user_id |-> 1, sku |-> product.sku,
                                 first |-> key \notin observed,
                                 prev |-> IF key \in DOMAIN stock_cache
                                          THEN Some(stock_cache[key]) ELSE None,
                                 cur |-> CacheEntry(product),
                                 notify |-> r.notify,
                                 seen |-> IF key \in DOMAIN lastSeen
                                          THEN Some(lastSeen[key]) ELSE None,
                                 afterDrop |-> None])
            /\ observed' = observed \cup {key}
            /\ lastSeen' = Put(lastSeen, key, [in_stock |-> product.quantity > 0,
                                               quantity |-> product.quantity])
    /\ UNCHANGED <<blockedAt, lastSend, dropped, brVars, chatHist>>
    /\ UNCHANGED <<running, pc, parts, uidx, work, snapshot, pending, ticks>>
    /\ UNCHANGED <<dbVars, chatVars, loopVars, tickHist, callHist>>

SpecDiff == InitDiff /\ [][DiffStep]_vars

(* ================= get_protein_products on its own ==================== *)
\* The items the site can serve: two ids, two skus, 'available' an integer,
\* missing or null, and one item that carries no sku.
FetchItems ==
    { [id |-> i, sku |-> k, avail_kind |-> a[1], available |-> a[2], inventory |-> 7] :
        i \in {"p1", "p2"}, k \in {"s1", "s2"},
        a \in {<<"int", 0>>, <<"int", 2>>, <<"missing", 0>>, <<"null", 0>>} }
      \cup {[id |-> "p1", sku |-> "", avail_kind |-> "int", available |-> 2,
             inventory |-> 7]}

RECURSIVE SeqsUpTo(_, _)
\* The sequences over S of length at most n.
SeqsUpTo(S, n) ==
    IF n = 0 THEN {<<>>}
    ELSE SeqsUpTo(S, n - 1)
           \cup {Append(q, x) : q \in {r \in SeqsUpTo(S, n - 1) : Len(r) = n - 1},
                                x \in S}

\* The raw item list the site serves is drawn at the start.
InitFetch ==
    /\ InitDb /\ InitIdle
    /\ lastCall = None /\ firstRes = EmptyDict /\ calls = 0
    /\ inputs \in {{raw} : raw \in SeqsUpTo(FetchItems, MaxRaw)}

\* get_protein_products() on a fresh instance; the raw list arrives in one
\* product-listing response or split over two.
FetchStep ==
    /\ calls = 0
    /\ calls' = 1
    /\ \E raw \in inputs : \E k \in 0..Len(raw) :
         LET run == [launch_ok |-> TRUE, error |-> FALSE,
                     responses |-> <<ProductsResponse(SubSeq(raw, 1, k), TRUE),
                                     ProductsResponse(SubSeq(raw, k + 1, Len(raw)), TRUE)>>]
             r == GetProteinProducts(NewAmulAPI, run)
         IN lastCall' = Some([op |-> "get_protein_products", raw |-> raw,
                              ret |-> r.ret, raised |-> r.raised])
    /\ UNCHANGED <<firstRes, inputs>>
    /\ UNCHANGED <<dbVars, monVars, chatVars, loopVars, tickHist, obsHist, sendHist, brVars, chatHist>>

SpecFetch == InitFetch /\ [][FetchStep]_vars

(* ===================== the resolver on its own ======================== *)
\* Codes at and around the ends of every range of the table.
RangeEnds ==
    UNION { UNION { {r[1] - 1, r[1], r[2], r[2] + 1} : r \in FallbackRules[i].ranges } :
            i \in 1..Len(FallbackRules) }

ResTestCodes ==
    {ToStr(n) : n \in RangeEnds \cup {400063, 999999}}
        \cup {<<0>> \o ToStr(400063), <<4, 0, 0, 0, 6, NonDigit>>}

\* Location records the site's lookup can answer for code c.
LiveRecord(code, alias) ==
    [pincode |-> code, substore |-> alias, city |-> "Panaji", state |-> "Goa"]

PincodeResponse(records) ==
    [kind |-> "pincode", json_ok |-> TRUE, records |-> records, items |-> <<>>,
     after |-> TRUE]

ResRecordLists(c) ==
    { <<>>,
      <<LiveRecord(c, "goa")>>,
      <<LiveRecord(ToStr(999998), "kerala")>>,
      <<LiveRecord(ToStr(999998), "kerala"), LiveRecord(c, "goa")>>,
      <<LiveRecord(c, "new-store")>>,
      <<LiveRecord(c, "")>> }

\* Browser runs of a live lookup for code c.
ResRuns(c) ==
    {[launch_ok |-> FALSE, error |-> FALSE, responses |-> <<>>]}
    \cup {[launch_ok |-> TRUE, error |-> FALSE, responses |-> <<PincodeResponse(l)>>] :
            l \in ResRecordLists(c)}
    \cup {[launch_ok |-> TRUE, error |-> TRUE,
           responses |-> <<ProductsResponse(<<SysItem("p1", "s1", "int", 5)>>, FALSE),
                           PincodeResponse(<<LiveRecord(ToStr(999998), "kerala")>>),
                           PincodeResponse(<<LiveRecord(c, "goa")>>)>>]}

\* The codes typed in one run: 400063 and one more test code.
InitRes ==
    /\ InitDb /\ InitIdle
    /\ lastCall = None /\ firstRes = EmptyDict /\ calls = 0
    /\ inputs \in {{ToStr(400063), c} : c \in ResTestCodes}

\* search_pincode(c) on the handlers' instance.
ResSearch ==
    /\ calls < MaxCalls
    /\ calls' = calls + 1
    /\ \E c \in inputs : \E run \in ResRuns(c) :
         LET r == SearchPincode(api, c, run)
         IN /\ api' = r.api
            /\ lastCall' = Some([op |-> "search_pincode", code |-> c,
                                 ret |-> r.ret, live |-> r.live,
                                 before |-> IF c \in DOMAIN firstRes
                                            THEN Some(firstRes[c]) ELSE None,
                                 run |-> IF r.live THEN Some(run) ELSE None])
            /\ firstRes' = IF r.ret # None /\ c \notin DOMAIN firstRes
                           THEN Put(firstRes, c, r.ret[1]) ELSE firstRes
    /\ UNCHANGED <<cpc, chats, inputs>>
    /\ UNCHANGED <<dbVars, monVars, loopVars, tickHist, obsHist, sendHist, brVars, chatHist>>

\* set_pincode(c, substore_id) on the handlers' instance, with a stored
\* substore_id.
ResSetPincode ==
    /\ calls < MaxCalls
    /\ calls' = calls + 1
    /\ \E c \in inputs : \E sid \in {SUBSTORE_IDS["mumbai-br"], SUBSTORE_IDS["goa"]} :
         /\ api' = SetPincode(api, c, sid)
         /\ lastCall' = Some([op |-> "set_pincode", code |-> c, ret |-> None,
                              live |-> FALSE, before |-> None, sid |-> sid,
                              hit |-> c \in DOMAIN api.pincode_cache,
                              canonical_before |-> api.canonical_pincode])
    /\ UNCHANGED <<cpc, chats, inputs, firstRes>>
    /\ UNCHANGED <<dbVars, monVars, loopVars, tickHist, obsHist, sendHist, brVars, chatHist>>

\* Browser runs of a catalog fetch on the handlers' instance: a failed
\* launch, nothing intercepted, one or two products intercepted, and a run
\* whose interaction raised after the page's own listing was intercepted.
ResFetchRuns ==
    {[launch_ok |-> FALSE, error |-> FALSE, responses |-> <<>>],
     [launch_ok |-> TRUE, error |-> FALSE, responses |-> <<>>],
     [launch_ok |-> TRUE, error |-> FALSE,
      responses |-> <<ProductsResponse(<<SysItem("p1", "s1", "int", 5)>>, TRUE)>>],
     [launch_ok |-> TRUE, error |-> FALSE,
      responses |-> <<ProductsResponse(<<SysItem("p2", "s2", "int", 0),
                                         SysItem("p1", "s1", "int", 20)>>, TRUE)>>],
     [launch_ok |-> TRUE, error |-> TRUE,
      responses |-> <<ProductsResponse(<<SysItem("p2", "s2", "int", 5)>>, FALSE)>>],
     [launch_ok |-> TRUE, error |-> FALSE,
      responses |-> <<ProductsResponse(<<SysItem("p1", "s1", "int", 20)>>, FALSE),
                      ProductsResponse(<<SysItem("p1", "s1", "int", 0)>>, TRUE)>>]}

RECURSIVE BeforeTyping(_)
\* The number of items of the leading responses of a run that were
\* intercepted during page.goto, before the code was typed.
BeforeTyping(responses) ==
    IF responses = <<>> \/ Head(responses).after THEN 0
    ELSE Len(Head(responses).items) + BeforeTyping(Tail(responses))

\* The items handle_response gathered in a run.
Intercepted(code, run) ==
    IF run.launch_ok THEN EnterPincodeAndFetch(code, run).products ELSE <<>>

\* get_protein_products() on the handlers' instance.
ResFetch ==
    /\ calls < MaxCalls
    /\ calls' = calls + 1
    /\ \E run \in ResFetchRuns :
         LET r == GetProteinProducts(api, run)
         IN /\ api' = r.api
            /\ lastCall' = Some([op |-> "get_protein_products",
                                 raw |-> Intercepted(FetchPincode(api), run),
                                 ret |-> r.ret, raised |-> r.raised,
                                 typed |-> r.typed,
                                 session |-> [pincode |-> api.pincode,
                                              canonical_pincode |-> api.canonical_pincode],
                                 launch_ok |-> run.launch_ok,
                                 error |-> run.error,
                                 pre |-> BeforeTyping(run.responses),
                                 cached |-> IF FetchPincode(api) \in DOMAIN api.products_cache
                                            THEN Some(api.products_cache[FetchPincode(api)])
                                            ELSE None])
    /\ UNCHANGED <<cpc, chats, inputs, firstRes>>
    /\ UNCHANGED <<dbVars, monVars, loopVars, tickHist, obsHist, sendHist, brVars, chatHist>>

ResNext == ResSearch \/ ResSetPincode

(* ------------- _enter_pincode_and_fetch: the browser session ---------- *)
\* `async with async_playwright() as p:` is entered.
BrEnter(c) ==
    /\ brRun[c].pos = "idle"
    /\ brRun[c].n < MaxFetches
    /\ brRun' = [brRun EXCEPT ![c] = [@ EXCEPT !.pos = "entered", !.browser = 0,
                                                !.raised = FALSE]]
    /\ UNCHANGED <<browsers, brLast>>
    /\ UNCHANGED <<dbVars, monVars, chatVars, loopVars, tickHist, obsHist, sendHist,
                   chatHist, callHist>>

\* p.chromium.launch(): a new browser, or an exception that leaves the
\* `async with` block.
BrLaunch(c) ==
    /\ brRun[c].pos = "entered"
    /\ \E ok \in BOOLEAN :
         IF ok
         THEN /\ browsers' = Append(browsers, "open")
              /\ brRun' = [brRun EXCEPT ![c] = [@ EXCEPT !.pos = "launched",
                                                          !.browser = Len(browsers) + 1]]
         ELSE /\ brRun' = [brRun EXCEPT ![c] = [@ EXCEPT !.pos = "exiting",
                                                          !.raised = TRUE]]
              /\ UNCHANGED browsers
    /\ UNCHANGED brLast
    /\ UNCHANGED <<dbVars, monVars, chatVars, loopVars, tickHist, obsHist, sendHist,
                   chatHist, callHist>>

\* browser.new_context() and context.new_page(), both before the try
\* statement: an exception in either leaves the `async with` block without
\* passing through the finally clause.
BrSetup(c) ==
    /\ brRun[c].pos \in {"launched", "context"}
    /\ \E ok \in BOOLEAN :
         brRun' = [brRun EXCEPT ![c] =
                     IF ok
                     THEN [@ EXCEPT !.pos = IF @ = "launched" THEN "context" ELSE "try"]
                     ELSE [@ EXCEPT !.pos = "exiting", !.raised = TRUE]]
    /\ UNCHANGED <<browsers, brLast>>
    /\ UNCHANGED <<dbVars, monVars, chatVars, loopVars, tickHist, obsHist, sendHist,
                   chatHist, callHist>>

\* The try block: the page interaction ends, or raises and the exception is
\* logged; either way the finally clause comes next.
BrInteract(c) ==
    /\ brRun[c].pos = "try"
    /\ brRun' = [brRun EXCEPT ![c] = [@ EXCEPT !.pos = "finally"]]
    /\ UNCHANGED <<browsers, brLast>>
    /\ UNCHANGED <<dbVars, monVars, chatVars, loopVars, tickHist, obsHist, sendHist,
                   chatHist, callHist>>

\* finally: await browser.close()
BrClose(c) ==
    /\ brRun[c].pos = "finally"
    /\ browsers' = [browsers EXCEPT ![brRun[c].browser] = "closed"]
    /\ brRun' = [brRun EXCEPT ![c] = [@ EXCEPT !.pos = "exiting"]]
    /\ UNCHANGED brLast
    /\ UNCHANGED <<dbVars, monVars, chatVars, loopVars, tickHist, obsHist, sendHist,
                   chatHist, callHist>>

\* The `async with` block is left and the run returns its result or
\* propagates the exception.  The function itself has not closed a browser
\* that is still open here; what stopping the Playwright driver does to it
\* is not in this code, so either outcome is taken.
BrExit(c) ==
    /\ brRun[c].pos = "exiting"
    /\ LET b == brRun[c].browser
       IN /\ \E reaped \in BOOLEAN :
               browsers' = IF b # 0 /\ browsers[b] = "open" /\ reaped
                           THEN [browsers EXCEPT ![b] = "closed"]
                           ELSE browsers
          /\ brLast' = [brLast EXCEPT ![c] = Some([browser |-> b,
                                                   raised |-> brRun[c].raised])]
    /\ brRun' = [brRun EXCEPT ![c] = [@ EXCEPT !.pos = "idle", !.n = @ + 1]]
    /\ UNCHANGED <<dbVars, monVars, chatVars, loopVars, tickHist, obsHist, sendHist,
                   chatHist, callHist>>

BrowserNext ==
    \E c \in Callers :
        BrEnter(c) \/ BrLaunch(c) \/ BrSetup(c) \/ BrInteract(c) \/ BrClose(c)
            \/ BrExit(c)

InitBrowser == InitDb /\ InitIdle /\ InitPure

SpecBrowser == InitBrowser /\ [][BrowserNext]_vars

(* --------------------------- the live lookup -------------------------- *)
\* The code looked up, covered by no range rule.
LiveCode == ToStr(999999)

\* Record lists of a location response: records for the code under two
\* store aliases, records for two other codes, and pairs of them.
LiveRecordLists ==
    LET cA == LiveRecord(LiveCode, "goa")
        cB == LiveRecord(LiveCode, "new-store")
        oA == LiveRecord(ToStr(999998), "kerala")
        oB == LiveRecord(ToStr(999997), "goa")
    IN {<<>>, <<cA>>, <<cB>>, <<oA>>, <<oB>>,
        <<oA, cA>>, <<oB, cB>>, <<oA, oB>>, <<cA, cB>>}

\* Responses the page can receive during a lookup: location responses, a
\* location response that is not JSON, and a product listing.
LiveResponses ==
    {PincodeResponse(l) : l \in LiveRecordLists}
    \cup {[kind |-> "pincode", json_ok |-> FALSE, records |-> <<>>, items |-> <<>>,
           after |-> TRUE],
          ProductsResponse(<<SysItem("p1", "s1", "int", 5)>>, TRUE)}

\* The responses of the run, in the order their bodies are handled, are
\* drawn at the start.
InitLive ==
    /\ InitDb /\ InitIdle
    /\ lastCall = None /\ firstRes = EmptyDict /\ calls = 0
    /\ inputs \in {{rs} : rs \in SeqsUpTo(LiveResponses, MaxResp)}

\* One run of _enter_pincode_and_fetch for LiveCode, with or without an
\* error in the page interaction.
LiveStep ==
    /\ calls = 0
    /\ calls' = 1
    /\ \E rs \in inputs : \E err \in BOOLEAN :
         LET run == [launch_ok |-> TRUE, error |-> err, responses |-> rs]
         IN lastCall' = Some([op |-> "enter_pincode_and_fetch", code |-> LiveCode,
                              responses |-> rs,
                              info |-> EnterPincodeAndFetch(LiveCode, run).pincode_info])
    /\ UNCHANGED <<firstRes, inputs>>
    /\ UNCHANGED <<dbVars, monVars, chatVars, loopVars, tickHist, obsHist, sendHist, brVars, chatHist>>

SpecLive == InitLive /\ [][LiveStep]_vars

SpecRes == InitRes /\ [][ResNext]_vars

(* ============== one instance: resolving, setting, fetching ============ *)
\* The handlers' instance over a run of calls for a code a range rule
\* covers and a code none covers.
InitSession ==
    /\ InitDb /\ InitIdle
    /\ lastCall = None /\ firstRes = EmptyDict /\ calls = 0
    /\ inputs = {ToStr(400063), ToStr(999999)}

SessionNext == ResSearch \/ ResSetPincode \/ ResFetch

SpecSession == InitSession /\ [][SessionNext]_vars

(* ================= the handlers' writes and the monitor =============== *)
\* add_user(user_id, ...): the row exists; ON CONFLICT(user_id) updates
\* username and first_name only.
AddUser(tbl, u) == tbl

\* A plausible slip: setting a location switches the user on again.
UpdateUserPincodeReactivates(tbl, u, res) ==
    [tbl EXCEPT ![u] = [is_active |-> TRUE, pincode |-> res.pincode,
                        substore_id |-> res.substore_id]]

\* update_user_pincode(user_id, pincode, substore_id, substore_name).
UpdateUserPincode(tbl, u, res) ==
    [tbl EXCEPT ![u] = [is_active |-> tbl[u].is_active, pincode |-> res.pincode,
                        substore_id |-> res.substore_id]]

\* set_user_active(user_id, is_active).
SetUserActive(tbl, u, flag) == [tbl EXCEPT ![u].is_active = flag]

\* add_subscription / remove_subscription / clear_user_subscriptions on the
\* set of subscriptions with is_active = 1.
AddSubscription(s, u, sku) == s \cup {<<u, sku>>}
RemoveSubscription(s, u, sku) == s \ {<<u, sku>>}
ClearUserSubscriptions(s, u) == {k \in s : k[1] # u}

\* `pincode.isdigit() and len(pincode) == 6`
ValidPincodeText(c) == IsIntLiteral(c) /\ Len(c) = 6

\* The texts a user sends as a postal code: a code of the Pune rule, a code
\* no rule covers, and a text that is no code.
ChatCodes == {ToStr(411001), ToStr(999999), <<4, 0, 0, 0, 6, NonDigit>>}

\* Browser runs of the live lookup of code c: no launch, the code's record
\* under a known alias, and the code's record without a 'substore'.
ChatLookups(c) ==
    {[launch_ok |-> FALSE, error |-> FALSE, responses |-> <<>>],
     [launch_ok |-> TRUE, error |-> FALSE,
      responses |-> <<PincodeResponse(<<LiveRecord(c, "goa")>>)>>],
     [launch_ok |-> TRUE, error |-> FALSE,
      responses |-> <<PincodeResponse(<<LiveRecord(c, "")>>)>>]}

\* Browser runs of the monitor's catalog fetch: no launch, and both
\* products at one of two quantities.
ChatRuns ==
    {[launch_ok |-> FALSE, error |-> FALSE, responses |-> <<>>]}
    \cup {[launch_ok |-> TRUE, error |-> FALSE,
           responses |-> <<ProductsResponse(<<SysItem("p1", "s1", "int", q),
                                              SysItem("p2", "s2", "int", q)>>, TRUE)>>] :
           q \in {5, 20}}

ChatSkus == {"s1", "s2"}

\* The user whose chat is followed.
ChatUsers == {1}

\* A handler's synchronous database section runs while the monitor task is
\* suspended and no handler is inside a fetch.
HandlerRuns ==
    /\ cpc = "idle"
    /\ pc \in Suspended
    /\ chats < MaxChat
    /\ chats' = chats + 1
    /\ UNCHANGED <<products_tbl, alerts, monVars, cpc, loopVars>>
    /\ UNCHANGED <<tickHist, obsHist, sendHist, brVars, seenIn>>
    /\ UNCHANGED <<firstRes, calls, inputs>>

\* /start: add_user, then the welcome message.
HandleStart(u) ==
    /\ HandlerRuns
    /\ users' = AddUser(users, u)
    /\ lastCall' = Some([op |-> "start", user_id |-> u,
                         was_active |-> users[u].is_active])
    /\ UNCHANGED <<subs, api, unsubbed, resubbed, stopped>>

\* process_pincode: the text is validated, search_pincode resolves it on
\* the handlers' instance and a resolution is stored in the user's row.
ProcessPincode(u) ==
    /\ HandlerRuns
    /\ \E c \in ChatCodes : \E run \in ChatLookups(c) :
         IF ~ValidPincodeText(c) THEN
            /\ UNCHANGED <<users, api>>
            /\ lastCall' = Some([op |-> "process_pincode", user_id |-> u,
                                 was_active |-> users[u].is_active,
                                 code |-> c, ret |-> None])
         ELSE
            LET r == SearchPincode(api, c, run)
            IN /\ api' = r.api
               /\ users' = IF r.ret = None THEN users
                           ELSE UpdateUserPincode(users, u, r.ret[1])
               /\ lastCall' = Some([op |-> "process_pincode", user_id |-> u,
                                    was_active |-> users[u].is_active,
                                    code |-> c, ret |-> r.ret])
    /\ UNCHANGED <<subs, unsubbed, resubbed, stopped>>

\* handle_product_toggle, 'toggle_<sku>': a subscribed sku is unsubscribed;
\* any other is subscribed and the user is set active.
HandleProductToggle(u, sku) ==
    /\ HandlerRuns
    /\ IF sku \in GetUserSubscriptions(subs, u) THEN
          /\ subs' = RemoveSubscription(subs, u, sku)
          /\ unsubbed' = unsubbed \cup {<<u, sku>>}
          /\ resubbed' = resubbed \ {<<u, sku>>}
          /\ UNCHANGED <<users, stopped>>
       ELSE
          /\ subs' = AddSubscription(subs, u, sku)
          /\ users' = SetUserActive(users, u, TRUE)
          /\ resubbed' = IF <<u, sku>> \in unsubbed
                         THEN resubbed \cup {<<u, sku>>} ELSE resubbed
          /\ unsubbed' = unsubbed \ {<<u, sku>>}
          /\ stopped' = stopped \ {u}
    /\ lastCall' = Some([op |-> "toggle", user_id |-> u,
                         was_active |-> users[u].is_active, sku |-> sku])
    /\ UNCHANGED api

\* handle_stop_confirm: 'confirm_stop' clears the user's subscriptions and
\* sets the user inactive; 'cancel_stop' changes nothing.
HandleStopConfirm(u) ==
    /\ HandlerRuns
    /\ \E data \in {"confirm_stop", "cancel_stop"} :
         /\ IF data = "confirm_stop" THEN
               /\ subs' = ClearUserSubscriptions(subs, u)
               /\ users' = SetUserActive(users, u, FALSE)
               /\ stopped' = stopped \cup {u}
            ELSE UNCHANGED <<subs, users, stopped>>
         /\ lastCall' = Some([op |-> data, user_id |-> u,
                              was_active |-> users[u].is_active])
    /\ UNCHANGED <<api, unsubbed, resubbed>>

HandlerNext ==
    \E u \in ChatUsers :
        \/ HandleStart(u)
        \/ ProcessPincode(u)
        \/ HandleStopConfirm(u)
        \/ \E sku \in ChatSkus : HandleProductToggle(u, sku)

\* Both users have set the same location; user 1 holds two subscriptions,
\* user 2 none yet.
InitChat ==
    /\ users = [u \in Users |->
                  UserRow([pincode |-> ToStr(400063),
                           substore_id |-> SUBSTORE_IDS["mumbai-br"]])]
    /\ subs = {<<1, "s1">>, <<1, "s2">>}
    /\ products_tbl = BaseProducts
    /\ InitIdle
    /\ InitPure

ChatSpecNext == MonitorSteps(ChatRuns, MaxTicks) \/ HandlerNext

SpecChat == InitChat /\ [][ChatSpecNext]_vars

(* ============================== claims ================================ *)
Key(o) == <<o.user_id, o.sku>>

\* C1: the first observation of a (user, sku) pair only records the
\* baseline in the cache and sends nothing, whatever stock it shows.
C1_BaselineSuppression ==
    (lastObs # None /\ lastObs[1].first) =>
        /\ lastObs[1].notify = None
        /\ pending = None
        /\ pc # "sending"
        /\ Key(lastObs[1]) \notin DOMAIN tickSends
        /\ Key(lastObs[1]) \in DOMAIN stock_cache
        /\ stock_cache[Key(lastObs[1])] = lastObs[1].cur

\* A first observation that shows the product in stock with 20 units.
C1_Witness ==
    /\ lastObs # None /\ lastObs[1].first
    /\ lastObs[1].cur = [in_stock |-> TRUE, quantity |-> 20]

\* The transition table of the claim, with the code's names of the kinds:
\* restocked = back_in_stock, increased = stock_increased,
\* decreased = stock_decreased.
TableKind(prev, cur) ==
    IF ~prev.in_stock /\ cur.in_stock THEN "back_in_stock"
    ELSE IF prev.in_stock /\ cur.in_stock /\ cur.quantity > prev.quantity
         THEN "stock_increased"
    ELSE IF prev.in_stock /\ cur.in_stock /\ cur.quantity < prev.quantity
            /\ cur.quantity <= 10
         THEN "low_stock"
    ELSE IF prev.in_stock /\ cur.in_stock /\ cur.quantity < prev.quantity
            /\ cur.quantity > 10
         THEN "stock_decreased"
    ELSE IF prev.in_stock /\ ~cur.in_stock THEN "sold_out"
    ELSE ""

\* C2: every observation after the first emits exactly the kind the
\* transition table gives for (previous, current), and nothing when the
\* table has no row for it.
C2_TransitionTable ==
    (lastObs # None /\ ~lastObs[1].first) =>
        /\ lastObs[1].prev # None
        /\ IF TableKind(lastObs[1].prev[1], lastObs[1].cur) = ""
           THEN lastObs[1].notify = None
           ELSE /\ lastObs[1].notify # None
                /\ lastObs[1].notify[1].kind =
                      TableKind(lastObs[1].prev[1], lastObs[1].cur)

\* A quantity that fell from 20 to 11 was reported as decreased.
C2_Witness ==
    /\ lastObs # None /\ ~lastObs[1].first
    /\ lastObs[1].prev = Some([in_stock |-> TRUE, quantity |-> 20])
    /\ lastObs[1].cur = [in_stock |-> TRUE, quantity |-> 11]
    /\ lastObs[1].notify # None
    /\ lastObs[1].notify[1].kind = "stock_decreased"

Scenario(pq, cq, kind, qty, delta) ==
    ( /\ lastObs # None
      /\ lastObs[1].prev = Some([in_stock |-> pq > 0, quantity |-> pq])
      /\ lastObs[1].cur = [in_stock |-> cq > 0, quantity |-> cq] ) =>
        /\ lastObs[1].notify # None
        /\ lastObs[1].notify[1].kind = kind
        /\ lastObs[1].notify[1].quantity = qty
        /\ lastObs[1].notify[1].quantity_change = delta

\* C3: every notification carries the fresh quantity and the change
\* fresh minus previous; (out, 0) -> (in, 5) gives restocked with quantity
\* 5, (in, 20) -> (in, 8) low_stock with change -12, (in, 20) -> (in, 15)
\* decreased with change -5.
C3_QuantityAndDelta ==
    /\ (lastObs # None /\ lastObs[1].notify # None) =>
          /\ lastObs[1].prev # None
          /\ lastObs[1].notify[1].quantity = lastObs[1].cur.quantity
          /\ lastObs[1].notify[1].quantity_change =
                lastObs[1].cur.quantity - lastObs[1].prev[1].quantity
    /\ Scenario(0, 5, "back_in_stock", 5, 5)
    /\ Scenario(20, 8, "low_stock", 8, -12)
    /\ Scenario(20, 15, "stock_decreased", 15, -5)

\* The observation of 8 units after 20.
C3_Witness ==
    /\ lastObs # None
    /\ lastObs[1].prev = Some([in_stock |-> TRUE, quantity |-> 20])
    /\ lastObs[1].cur = [in_stock |-> TRUE, quantity |-> 8]
    /\ lastObs[1].notify # None

\* The index of the first raw item carrying the sku.
FirstWithSku(raw, sku) ==
    CHOOSE j \in 1..Len(raw) :
        raw[j].sku = sku /\ \A k \in 1..(j - 1) : raw[k].sku # sku

\* The quantity the claim names: the 'available' field, 0 when missing.
ClaimQty(item) == IF item.avail_kind = "missing" THEN 0 ELSE item.available

Returned(c) == c # None /\ c[1].op = "get_protein_products" /\ ~c[1].raised

\* C4: every product get_protein_products returns has
\* in_stock = (quantity > 0), its quantity being the 'available' field of
\* its raw item (0 when the field is missing), whatever inventory_quantity
\* holds.
C4_InStockDerived ==
    Returned(lastCall) =>
        \A i \in 1..Len(lastCall[1].ret) :
            LET p == lastCall[1].ret[i]
            IN /\ p.in_stock = (p.quantity > 0)
               /\ \E j \in 1..Len(lastCall[1].raw) :
                     /\ lastCall[1].raw[j].sku = p.sku
                     /\ p.quantity = ClaimQty(lastCall[1].raw[FirstWithSku(lastCall[1].raw, p.sku)])

\* A returned product with no units at the location while the warehouse
\* total is positive.
C4_Witness ==
    /\ Returned(lastCall)
    /\ \E i \in 1..Len(lastCall[1].ret) :
          /\ lastCall[1].ret[i].quantity = 0
          /\ ~lastCall[1].ret[i].in_stock
    /\ \E j \in 1..Len(lastCall[1].raw) :
          lastCall[1].raw[j].inventory > 0 /\ lastCall[1].raw[j].avail_kind = "int"
             /\ lastCall[1].raw[j].available = 0 /\ lastCall[1].raw[j].sku # ""

\* C5: the list built holds exactly one entry per distinct SKU of the raw
\* list, each built from the first raw item carrying that SKU, in order of
\* first occurrence, and deduplicating the deduplicated list changes
\* nothing.
C5_DedupFirstWins ==
    Returned(lastCall) =>
        LET raw == lastCall[1].raw
            ret == lastCall[1].ret
        IN /\ {ret[i].sku : i \in 1..Len(ret)} = {raw[j].sku : j \in 1..Len(raw)} \ {""}
           /\ \A i, j \in 1..Len(ret) : ret[i].sku = ret[j].sku => i = j
           /\ \A i \in 1..Len(ret) :
                 /\ ret[i].id = raw[FirstWithSku(raw, ret[i].sku)].id
                 /\ ret[i].quantity = ClaimQty(raw[FirstWithSku(raw, ret[i].sku)])
           /\ \A i, j \in 1..Len(ret) :
                 i < j => FirstWithSku(raw, ret[i].sku) < FirstWithSku(raw, ret[j].sku)
           /\ DedupRaw(DedupRaw(raw)) = DedupRaw(raw)
           /\ ProcessProducts(DedupRaw(raw)) = ret

\* A raw list in which a SKU comes twice with different data, and a list
\* was returned.
C5_Witness ==
    /\ Returned(lastCall)
    /\ Len(lastCall[1].ret) = 2
    /\ \E i, j \in 1..Len(lastCall[1].raw) :
          /\ i < j
          /\ lastCall[1].raw[i].sku = lastCall[1].raw[j].sku
          /\ lastCall[1].raw[i].sku # ""
          /\ lastCall[1].raw[i].id # lastCall[1].raw[j].id
          /\ lastCall[1].raw[i].available # lastCall[1].raw[j].available

Searched(c) == c # None /\ c[1].op = "search_pincode"

\* C6: once search_pincode(code) has returned a resolution, every later
\* search_pincode(code) on the instance returns the identical resolution
\* and starts no browser run, whatever was resolved in between.
C6_CacheStable ==
    (Searched(lastCall) /\ lastCall[1].before # None) =>
        /\ lastCall[1].ret = lastCall[1].before
        /\ ~lastCall[1].live

\* A second search of a code that the first search resolved by a live
\* lookup, after another code was resolved.
C6_Witness ==
    /\ Searched(lastCall) /\ lastCall[1].before # None
    /\ lastCall[1].before[1].canonical_pincode = NoCode
    /\ Cardinality(DOMAIN firstRes) = 2

\* C7: a code whose numeric value lies in a range rule resolves to that
\* rule's partition with that rule's canonical code, with no browser run;
\* 400063 resolves to mumbai-br with canonical code 400001.
C7_RangeRule ==
    Searched(lastCall) =>
        /\ \A i \in 1..Len(FallbackRules) :
              ( /\ IsIntLiteral(lastCall[1].code)
                /\ RuleCovers(FallbackRules[i], ToInt(lastCall[1].code)) ) =>
                  /\ lastCall[1].ret # None
                  /\ ~lastCall[1].live
                  /\ lastCall[1].ret[1].substore_name = FallbackRules[i].alias
                  /\ lastCall[1].ret[1].substore_id = SUBSTORE_IDS[FallbackRules[i].alias]
                  /\ lastCall[1].ret[1].canonical_pincode = ToStr(FallbackRules[i].canonical)
        /\ lastCall[1].code = <<4, 0, 0, 0, 6, 3>> =>
              /\ lastCall[1].ret # None
              /\ ~lastCall[1].live
              /\ lastCall[1].ret[1].substore_name = "mumbai-br"
              /\ lastCall[1].ret[1].substore_id = "66506000c8f2d6e221b9193a"
              /\ lastCall[1].ret[1].canonical_pincode = <<4, 0, 0, 0, 0, 1>>

\* 400063 searched and resolved.
C7_Witness ==
    /\ Searched(lastCall)
    /\ lastCall[1].code = <<4, 0, 0, 0, 6, 3>>
    /\ lastCall[1].ret # None

\* C8: when the check of one partition raises in a tick, every partition
\* the tick grouped is still fetched, each either raises itself or is
\* checked to its end, and what is diffed in that tick follows the
\* transition table.
C8_PartitionIsolation ==
    /\ (pc = "sleep" /\ tickRaised # {}) =>
          /\ tickFetched = tickParts
          /\ tickChecked \cup tickRaised = tickParts
    /\ (tickRaised # {} /\ lastObs # None /\ ~lastObs[1].first) =>
          /\ lastObs[1].prev # None
          /\ IF TableKind(lastObs[1].prev[1], lastObs[1].cur) = ""
             THEN lastObs[1].notify = None
             ELSE /\ lastObs[1].notify # None
                  /\ lastObs[1].notify[1].kind =
                        TableKind(lastObs[1].prev[1], lastObs[1].cur)
                  /\ pc = "sending"

\* In a tick in which the first partition raised, a user of the second
\* partition is being notified.
C8_Witness ==
    /\ Cardinality(tickParts) = 2
    /\ tickRaised # {}
    /\ pc = "sending"
    /\ Head(parts).substore_id \notin tickRaised

\* C9: in one tick at most one send is made per (user, sku), and a send is
\* made only when the observed (in_stock, quantity) differs from the pair
\* recorded for the key.
C9_OneSendPerTransition ==
    /\ \A k \in DOMAIN tickSends : tickSends[k] <= 1
    /\ pc = "sending" =>
          /\ pending # None
          /\ lastObs # None
          /\ Key(lastObs[1]) = Key(pending[1])
          /\ lastObs[1].prev # None
          /\ lastObs[1].prev[1] # lastObs[1].cur

\* Two sends in one tick, for different keys.
C9_Witness ==
    /\ Cardinality(DOMAIN tickSends) >= 2
    /\ pc = "sending"

\* Browser runs (_enter_pincode_and_fetch coroutines) started and not
\* finished.
InFlight ==
    (IF mfetch # None /\ ~mfetch[1].done THEN 1 ELSE 0)
        + (IF cfetch # None /\ ~cfetch[1].done THEN 1 ELSE 0)

\* C10: at every moment at most one catalog fetch is in flight, counting
\* the monitor's and the handlers'.
C10_OneFetchInFlight == InFlight <= 1

\* C11: a tick begins only at the head of the loop of start(), with no
\* fetch or send of an earlier tick outstanding; the head is reached only
\* from start() itself or from the elapsed interval sleep, and that sleep
\* begins only when check_all_stocks has returned or raised.
C11_TicksDoNotOverlap ==
    [][ /\ (ticks' # ticks) =>
              (pc = "loop" /\ parts = <<>> /\ mfetch = None /\ pending = None)
        /\ (pc' = "loop" /\ pc # "loop") => pc \in {"init", "sleep"}
        /\ (pc' = "sleep" /\ pc # "sleep") =>
              (parts' = <<>> /\ mfetch' = None /\ pending' = None) ]_vars

\* The third tick is fetching.
C11_Witness == ticks = 3 /\ pc = "fetching"

\* C12: once stop() has been called during a tick, the monitor starts the
\* check of no further partition of that tick.
C12_StopEndsTick ==
    [][ ~running => ~(pc = "substore" /\ pc' = "fetching") ]_vars

\* C13: between the end of one partition's check and the start of the next
\* there is always a pause: the partition loop goes from a check straight
\* to its head only when no partition is left.
C13_PauseBetweenPartitions ==
    [][ (pc' = "substore" /\ pc \notin {"substore", "loop", "pause"}) =>
            parts' = <<>> ]_vars

\* C14: when the subscription loop takes a sku that the fresh snapshot of
\* the partition does not hold, the cache stays as it is (the entry kept or
\* still absent), nothing is sent or recorded for it, and the loop goes on
\* with the user's remaining subscriptions.
C14_MissingSkuUntouched ==
    [][ \A sku \in SKUs :
          ( /\ pc = "nextsub"
            /\ sku \in work
            /\ work' = work \ {sku}
            /\ sku \notin DOMAIN snapshot ) =>
              /\ stock_cache' = stock_cache
              /\ observed' = observed
              /\ pending' = None
              /\ tickSends' = tickSends
              /\ alerts' = alerts
              /\ pc' = "nextsub" ]_vars

\* A user whose one subscription was missing from the snapshot, with a
\* cache entry from an earlier tick, and whose other subscription was then
\* diffed.
C14_Witness ==
    /\ pc = "nextsub" /\ work = {}
    /\ lastObs # None /\ ~lastObs[1].first
    /\ \E sku \in GetUserSubscriptions(subs, lastObs[1].user_id) :
          /\ sku \notin DOMAIN snapshot
          /\ <<lastObs[1].user_id, sku>> \in DOMAIN stock_cache
          /\ stock_cache[<<lastObs[1].user_id, sku>>].in_stock

\* The users of a list of partition groups.
PartUsers(ps) ==
    UNION { {ps[i].users[j].user_id : j \in 1..Len(ps[i].users)} : i \in 1..Len(ps) }

\* C15: a send that fails because the user blocked the bot sets the user
\* inactive, and in every later tick the user is in no partition group, no
\* fetch is made for a partition that holds only that user, and nothing is
\* diffed or sent for the user.
C15_BlockedUserSkipped ==
    \A u \in DOMAIN blockedAt :
        /\ ~users[u].is_active
        /\ ticks > blockedAt[u] =>
              /\ u \notin PartUsers(parts)
              /\ lastObs # None => lastObs[1].user_id # u
              /\ pending # None => pending[1].user_id # u
              /\ \A k \in DOMAIN tickSends : k[1] # u
              /\ (\A v \in Users \ {u} : users[v].substore_id # users[u].substore_id)
                    => users[u].substore_id \notin tickFetched

\* A tick after the one in which a user was found blocked is diffing the
\* other user.
C15_Witness ==
    /\ \E u \in DOMAIN blockedAt : ticks > blockedAt[u]
    /\ lastObs # None

Fetched(c) == c # None /\ c[1].op = "get_protein_products" /\ "cached" \in DOMAIN c[1]

\* C16: the list a call of get_protein_products returns is built only from
\* the items intercepted in the browser run of that call: every product
\* comes from one of them, and the list is empty when the run intercepted
\* nothing or could not start, whatever _products_cache holds.
C16_AlwaysFresh ==
    Fetched(lastCall) =>
        /\ \A i \in 1..Len(lastCall[1].ret) :
              \E j \in 1..Len(lastCall[1].raw) :
                  /\ lastCall[1].raw[j].sku = lastCall[1].ret[i].sku
                  /\ lastCall[1].raw[j].id = lastCall[1].ret[i].id
                  /\ ClaimQty(lastCall[1].raw[j]) = lastCall[1].ret[i].quantity
        /\ lastCall[1].raw = <<>> => lastCall[1].ret = <<>>
        /\ (lastCall[1].raw # <<>> /\ ~lastCall[1].raised) => lastCall[1].ret # <<>>

\* A call whose browser could not start, on an instance whose cache holds
\* items for the code typed.
C16_Witness ==
    /\ Fetched(lastCall)
    /\ lastCall[1].cached # None
    /\ ~lastCall[1].launch_ok
    /\ lastCall[1].ret = <<>>

\* The code a fetch for stored code c has to type: the canonical code of
\* the range rule covering c, c itself when no rule covers it.
CodeToType(c) ==
    IF FallbackSubstore(c) = None THEN c
    ELSE FallbackSubstore(c)[1].canonical_pincode

\* C17: every catalog fetch in flight, the monitor's for the first user of
\* the partition and a handler's for the user it serves, types the
\* canonical code of the rule covering the stored code; for a stored 400063
\* that is 400001.
C17_CanonicalTyped ==
    /\ mfetch # None =>
          /\ mfetch[1].typed = CodeToType(Head(parts).users[1].pincode)
          /\ Head(parts).users[1].pincode = <<4, 0, 0, 0, 6, 3>> =>
                mfetch[1].typed = <<4, 0, 0, 0, 0, 1>>
    /\ cfetch # None =>
          /\ cfetch[1].typed = CodeToType(api.pincode)
          /\ api.pincode = <<4, 0, 0, 0, 6, 3>> => cfetch[1].typed = <<4, 0, 0, 0, 0, 1>>

\* C18: get_protein_products returns the empty list whenever the browser
\* could not start, a step of the interaction raised, or no product item
\* was intercepted.
C18_EmptyOnError ==
    ( /\ Fetched(lastCall)
      /\ \/ ~lastCall[1].launch_ok
         \/ lastCall[1].error
         \/ lastCall[1].raw = <<>> ) => lastCall[1].ret = <<>>

\* C19: while stop() has not been called, every tick is followed by
\* another one, whatever was raised during it, given that every fetch and
\* send returns (up to the number of ticks a run is followed for).
C19_NextTickComes ==
    \A n \in 1..(MaxLoopTicks - 1) :
        (ticks = n /\ running) ~> (ticks = n + 1 \/ ~running)

\* The second tick, in which a partition's check raised, has ended and the
\* monitor has not been stopped.
C19_Witness ==
    /\ ticks = 2 /\ running
    /\ tickRaised # {}
    /\ pc = "sleep"

\* The canonical code the claim names for code c: that of the range rule
\* covering the numeric value of c, c itself when no rule covers it.
ClaimCanonical(c) ==
    IF IsIntLiteral(c) /\ \E i \in 1..Len(FallbackRules) : RuleCovers(FallbackRules[i], ToInt(c))
    THEN ToStr(FallbackRules[CHOOSE i \in 1..Len(FallbackRules) :
                                RuleCovers(FallbackRules[i], ToInt(c))].canonical)
    ELSE c

\* C20: after set_pincode(p, s) on an instance whose cache has no entry for
\* p the session holds pincode p, substore_id s and the canonical code of
\* the rule covering p, or p when no rule covers it, whatever canonical
\* code an earlier call left.
C20_SetPincodeOnEmptyCache ==
    (lastCall # None /\ lastCall[1].op = "set_pincode" /\ ~lastCall[1].hit) =>
        /\ api.pincode = lastCall[1].code
        /\ api.substore_id = lastCall[1].sid
        /\ api.canonical_pincode = ClaimCanonical(lastCall[1].code)

\* set_pincode for 400063 with an empty cache entry, after a call for
\* another code had left its own canonical code.
C20_Witness ==
    /\ lastCall # None /\ lastCall[1].op = "set_pincode" /\ ~lastCall[1].hit
    /\ lastCall[1].code = <<4, 0, 0, 0, 6, 3>>
    /\ lastCall[1].canonical_before \notin {NoCode, <<4, 0, 0, 0, 0, 1>>, <<4, 0, 0, 0, 6, 3>>}
    /\ api.canonical_pincode = <<4, 0, 0, 0, 0, 1>>


\* The users whose stored partition id is in the set sids.
UsersOf(sids) == {u \in DOMAIN users : users[u].substore_id \in sids}

\* C21: when the fetch of a partition returns an empty list, the step that
\* receives it writes no product to the store, changes no cache entry,
\* records no alert and queues no notification, and no send is made in that
\* tick for a user of that partition.
C21_EmptySnapshotSkipped ==
    /\ [](\A k \in DOMAIN tickSends : k[1] \notin UsersOf(tickEmpty))
    /\ [][tickEmpty' \notin {tickEmpty, {}} =>
            /\ UNCHANGED <<products_tbl, stock_cache, alerts, pending>>
            /\ pc' = "pause"]_vars

\* In the second tick a partition whose users have cache entries has just
\* returned an empty list.
C21_Witness ==
    /\ ticks = 2
    /\ pc = "pause"
    /\ \E k \in DOMAIN stock_cache : k[1] \in UsersOf(tickEmpty) /\ stock_cache[k].in_stock

\* The browser run of the last search_pincode call answered no location
\* record: it could not start, or none of its location responses that
\* parsed held a record.
NoRecord(c) ==
    /\ Searched(c)
    /\ c[1].live
    /\ \/ ~c[1].run[1].launch_ok
       \/ \A i \in 1..Len(c[1].run[1].responses) :
             LET resp == c[1].run[1].responses[i]
             IN (resp.kind = "pincode" /\ resp.json_ok) => resp.records = <<>>

\* C22: a search_pincode call for a code no range rule covers whose live
\* lookup yields no record returns None, adds no entry to the resolution
\* cache and leaves pincode, substore_id, substore_name and
\* canonical_pincode of the session as they were.
C22_FailedLookupChangesNothing ==
    [][NoRecord(lastCall') =>
          /\ lastCall'[1].ret = None
          /\ FallbackSubstore(lastCall'[1].code) = None
          /\ api'.pincode_cache = api.pincode_cache
          /\ api'.pincode = api.pincode
          /\ api'.substore_id = api.substore_id
          /\ api'.substore_name = api.substore_name
          /\ api'.canonical_pincode = api.canonical_pincode]_vars

\* A lookup that found nothing, made while the session points at another
\* code resolved earlier.
C22_Witness ==
    /\ NoRecord(lastCall)
    /\ api.pincode # NoCode
    /\ api.pincode # lastCall[1].code
    /\ api.pincode_cache # EmptyDict

\* C23: after a search_pincode(c) call that returned a resolution, whether
\* from a range rule, a live lookup or the cache, the session's pincode,
\* substore_id and canonical_pincode are those of c, and the code a
\* following get_protein_products() would type is c's canonical code.
C23_SessionFollowsSearch ==
    (Searched(lastCall) /\ lastCall[1].ret # None) =>
        /\ api.pincode = lastCall[1].code
        /\ api.substore_id = lastCall[1].ret[1].substore_id
        /\ api.canonical_pincode = ClaimCanonical(lastCall[1].code)
        /\ FetchPincode(api) = ClaimCanonical(lastCall[1].code)

Looked(c) == c # None /\ c[1].op = "enter_pincode_and_fetch"

\* The records of response i of a run, none when it is no location response
\* or did not parse.
RecordsOf(rs, i) ==
    IF rs[i].kind = "pincode" /\ rs[i].json_ok THEN rs[i].records ELSE <<>>

\* C24: in a live lookup for code c, when some intercepted location
\* response holds a record with pincode c the record chosen at the end has
\* pincode c, in whatever order the responses came; when none does, the
\* record chosen is the first record of the first location response that
\* has records, and none is chosen when no response has records.
C24_ExactMatchWins ==
    Looked(lastCall) =>
        LET rs == lastCall[1].responses
            c == lastCall[1].code
            info == lastCall[1].info
            withRecs == {i \in 1..Len(rs) : RecordsOf(rs, i) # <<>>}
        IN IF \E i \in 1..Len(rs) : \E j \in 1..Len(RecordsOf(rs, i)) :
                    RecordsOf(rs, i)[j].pincode = c
           THEN /\ info # None
                /\ info[1].pincode = c
                /\ \E i \in 1..Len(rs) : \E j \in 1..Len(RecordsOf(rs, i)) :
                       RecordsOf(rs, i)[j] = info[1]
           ELSE IF withRecs # {}
           THEN LET f == CHOOSE i \in withRecs : \A k \in withRecs : i <= k
                IN info = Some(RecordsOf(rs, f)[1])
           ELSE info = None

\* A response with a record for another code was handled before one that
\* holds the code behind another record, and a record was chosen.
C24_Witness ==
    /\ Looked(lastCall)
    /\ lastCall[1].info # None
    /\ Len(lastCall[1].responses) >= 2
    /\ RecordsOf(lastCall[1].responses, 1) # <<>>
    /\ RecordsOf(lastCall[1].responses, 1)[1].pincode # lastCall[1].code
    /\ \E j \in 1..Len(RecordsOf(lastCall[1].responses, 2)) :
          /\ j > 1
          /\ RecordsOf(lastCall[1].responses, 2)[j].pincode = lastCall[1].code

\* C25: the pair stored for a (user, sku) key is the pair of the most recent
\* snapshot in which the sku was found during a check of that user, keys
\* never checked have no entry, and every diff takes as previous values
\* exactly the pair the preceding such snapshot gave.
C25_CacheIsLastSeen ==
    /\ DOMAIN stock_cache = DOMAIN lastSeen
    /\ \A k \in DOMAIN stock_cache :
          /\ stock_cache[k].in_stock = lastSeen[k].in_stock
          /\ stock_cache[k].quantity = lastSeen[k].quantity
    /\ lastObs # None =>
          /\ lastObs[1].prev = lastObs[1].seen
          /\ lastObs[1].first <=> lastObs[1].seen = None

\* A second-tick diff of a key whose quantity changed while it stayed in
\* stock.
C25_Witness ==
    /\ ticks = 2
    /\ lastObs # None
    /\ lastObs[1].seen # None
    /\ lastObs[1].seen[1].in_stock
    /\ lastObs[1].cur.in_stock
    /\ lastObs[1].seen[1].quantity # lastObs[1].cur.quantity

\* C26: the cache entry of a key is replaced whole before the send is
\* awaited: while a send is in flight the entry already holds the fresh
\* pair, no entry ever pairs the flag of one snapshot with the quantity of
\* another, and once the send has returned the entry still holds the fresh
\* pair, whether the send succeeded, failed or raised.
C26_EntryReplacedWhole ==
    /\ \A k \in DOMAIN stock_cache :
          stock_cache[k].in_stock <=> stock_cache[k].quantity > 0
    /\ pc = "sending" =>
          /\ lastObs # None
          /\ stock_cache[Key(lastObs[1])] = lastObs[1].cur
    /\ lastSend # None =>
          /\ stock_cache[Key(lastSend[1])].quantity = lastSend[1].quantity
          /\ stock_cache[Key(lastSend[1])].in_stock <=> lastSend[1].quantity > 0

\* A send for a product that went out of stock has just raised.
C26_Witness ==
    /\ lastSend # None
    /\ lastSend[1].outcome = "raised"
    /\ lastSend[1].quantity = 0
    /\ ~stock_cache[Key(lastSend[1])].in_stock

\* C27: when the send for a transition fails with an error other than
\* "blocked", the step drops the notification and goes on to the next
\* subscription, no second send for the key is made in that tick, the
\* key's entry holds the pair whose send failed, and a later check of the
\* key that finds the same pair sends nothing.
C27_FailedSendDropped ==
    /\ [](/\ \A k \in DOMAIN dropped :
               /\ k \in DOMAIN stock_cache
               /\ stock_cache[k] = dropped[k]
               /\ k \in DOMAIN tickSends => tickSends[k] = 1
          /\ (/\ lastObs # None
              /\ lastObs[1].afterDrop # None
              /\ lastObs[1].cur = lastObs[1].afterDrop[1]) =>
                 /\ lastObs[1].notify = None
                 /\ pending = None
                 /\ pc # "sending")
    /\ [][(pc = "sending" /\ lastSend' # None /\ lastSend'[1].outcome = "failed") =>
             /\ pending' = None
             /\ pc' = "nextsub"
             /\ UNCHANGED <<stock_cache, alerts, users, tickSends>>]_vars

\* A tick after the one in which the send for a key failed finds the same
\* pair for the key.
C27_Witness ==
    /\ lastObs # None
    /\ lastObs[1].afterDrop # None
    /\ lastObs[1].cur = lastObs[1].afterDrop[1]
    /\ ticks >= 2

\* C28: the alert table changes only in the step in which a send returns
\* accepted, and then by exactly one appended row holding the user, the
\* sku and the quantity of the fresh snapshot; a send that failed, was
\* refused as blocked or raised, and a check that produced no
\* notification, add no row.
C28_OneAlertPerAcceptedSend ==
    [][IF pc = "sending" /\ lastSend' # None /\ lastSend'[1].outcome = "ok"
       THEN /\ lastObs # None
            /\ alerts' = Append(alerts, [user_id |-> lastObs[1].user_id,
                                         sku |-> lastObs[1].sku,
                                         quantity |-> lastObs[1].cur.quantity])
       ELSE alerts' = alerts]_vars

\* An accepted send for a quantity change has been recorded.
C28_Witness ==
    /\ lastSend # None
    /\ lastSend[1].outcome = "ok"
    /\ Len(alerts) = 1
    /\ alerts[1].quantity = lastSend[1].quantity
    /\ alerts[1].quantity > 0

\* The partition ids found among the active users that have a postal code.
ClaimParts ==
    {users[u].substore_id :
        u \in {v \in DOMAIN users : users[v].is_active /\ users[v].pincode # NoCode}}
      \ {""}

InUserLoop(p) == p \in {"nextuser", "nextsub", "sending"}

\* C29: the partitions of a tick are the distinct partition ids of the
\* active users (none when the user query failed); a fetch is started only
\* for a partition not yet fetched in the tick and by the end of the tick
\* every partition has been fetched, so each is fetched exactly once
\* however many users it holds; and the snapshot of that fetch stays as it
\* is while the partition's users and subscriptions are checked, every
\* diff taking its fresh pair from it.
C29_OneFetchPerPartition ==
    /\ [](/\ \A i, j \in 1..Len(parts) :
               parts[i].substore_id = parts[j].substore_id => i = j
          /\ tickFetched \subseteq tickParts
          /\ pc = "sleep" => tickFetched = tickParts
          /\ (InUserLoop(pc) /\ lastObs # None) =>
               /\ lastObs[1].sku \in DOMAIN snapshot
               /\ lastObs[1].cur.quantity = snapshot[lastObs[1].sku].quantity
               /\ Head(parts).substore_id \in tickFetched
               /\ mfetch = None)
    /\ [][ticks' = ticks + 1 => tickParts' \in {ClaimParts, {}}]_vars
    /\ [][(pc # "fetching" /\ pc' = "fetching") =>
             /\ Head(parts).substore_id \notin tickFetched
             /\ tickFetched' = tickFetched \cup {Head(parts).substore_id}]_vars
    /\ [][(InUserLoop(pc) /\ InUserLoop(pc')) =>
             /\ snapshot' = snapshot
             /\ tickFetched' = tickFetched]_vars

\* The second user of a partition is diffed against the snapshot of the
\* partition's one fetch, after the first user was.
C29_Witness ==
    /\ pc = "nextsub"
    /\ uidx = 2
    /\ lastObs # None
    /\ Len(Head(parts).users) = 2
    /\ \E k \in observed : k[1] = Head(parts).users[1].user_id
    /\ tickFetched = {Head(parts).substore_id}

Stopped == ~running /\ pc # "init"

\* C31: once stop() has been called, during a tick or during the interval
\* sleep, the loop eventually exits, given that every fetch and send returns
\* and the sleep elapses, and no further tick is started.
C31_StopExitsLoop ==
    /\ Stopped ~> pc = "exited"
    /\ [][Stopped => (ticks' = ticks /\ ~running')]_vars

\* stop() arrived while a send of the second tick was awaited.
C31_Witness ==
    /\ Stopped
    /\ pc = "sending"
    /\ ticks = 2

\* C38: the pincode field of every resolution search_pincode(c) returns is
\* c, and so is the pincode field of the entry cached under c.
C38_ResolutionCarriesTypedCode ==
    /\ (Searched(lastCall) /\ lastCall[1].ret # None) =>
          lastCall[1].ret[1].pincode = lastCall[1].code
    /\ \A c \in DOMAIN api.pincode_cache : api.pincode_cache[c].pincode = c

\* The last search was answered by a range rule.
ByRule(c) ==
    /\ Searched(c) /\ c[1].ret # None
    /\ c[1].ret[1].canonical_pincode # NoCode

\* C40: no code is covered by two range rules, every rule's alias has an
\* identifier in SUBSTORE_IDS, every rule's canonical code is covered by the
\* rule itself, and the canonical code of a resolution a rule gave resolves
\* to the same partition and to itself as canonical code.
C40_RulesConsistent ==
    /\ \A i, j \in 1..Len(FallbackRules) :
          i # j => \A r \in FallbackRules[i].ranges, q \in FallbackRules[j].ranges :
                      r[2] < q[1] \/ q[2] < r[1]
    /\ \A i \in 1..Len(FallbackRules) :
          /\ FallbackRules[i].alias \in DOMAIN SUBSTORE_IDS
          /\ RuleCovers(FallbackRules[i], FallbackRules[i].canonical)
          /\ \A r \in FallbackRules[i].ranges : r[1] <= r[2]
    /\ ByRule(lastCall) =>
          LET res == lastCall[1].ret[1]
              again == FallbackSubstore(res.canonical_pincode)
          IN /\ again # None
             /\ again[1].substore_id = res.substore_id
             /\ again[1].substore_id # ""
             /\ again[1].canonical_pincode = res.canonical_pincode

\* A rule resolved a code that is not its canonical code: the upper end of
\* a range.
C40_Witness ==
    /\ ByRule(lastCall)
    /\ lastCall[1].ret[1].canonical_pincode # lastCall[1].code
    /\ lastCall[1].code # ToStr(400063)

\* C36: in a run whose page interaction went through, every product of the
\* list returned is built from an item of a product-listing response
\* intercepted after the code was typed, never from one intercepted while
\* the page was loading.
C36_QuantitiesAfterTyping ==
    (Fetched(lastCall) /\ ~lastCall[1].raised /\ ~lastCall[1].error) =>
        \A i \in 1..Len(lastCall[1].ret) :
            FirstWithSku(lastCall[1].raw, lastCall[1].ret[i].sku) > lastCall[1].pre

\* C35: when the monitor's fetch of a partition is about to return, storing
\* the products of any snapshot the site can serve succeeds for every one of
\* them, a product whose sku is already stored under another product_id
\* included, so that the check of the partition goes on to its users.
C35_UpsertAlwaysSucceeds ==
    (pc = "fetching" /\ mfetch # None /\ mfetch[1].done /\ Top(stack) = "mon") =>
        \A run \in SysRuns :
            LET r == GetProteinProducts(MonitorApi(Head(parts)), run)
            IN ~r.raised => ~UpsertAll(products_tbl, r.ret).raised

\* The groups of a tick's partition list that hold user u.
GroupsOf(ps, u) ==
    {i \in 1..Len(ps) : \E j \in 1..Len(ps[i].users) : ps[i].users[j].user_id = u}

\* C32: when a tick groups the active users, every active user with a
\* postal code is in exactly one of the groups the tick goes on to process.
C32_EveryLocatedUserGrouped ==
    [][(ticks' = ticks + 1 /\ parts' # <<>>) =>
          \A u \in Users :
              (users[u].is_active /\ users[u].pincode # NoCode) =>
                  Cardinality(GroupsOf(parts', u)) = 1]_vars

\* C33: an observation of a key whose cache entry was recorded from the
\* snapshot of another partition sends no notification.
C33_FirstCheckAfterMoveSilent ==
    (lastObs # None /\ lastObs[1].from # None /\ lastObs[1].from[1] # lastObs[1].part) =>
        lastObs[1].notify = None

\* C34: the first observation of a key after it was unsubscribed and
\* subscribed again sends no notification.
C34_ResubscribeRebaselines ==
    (lastObs # None /\ lastObs[1].resub) => lastObs[1].notify = None

\* C37: once confirm_stop has completed for a user and the user has not
\* subscribed again, no observation made for the user leads to a send.
C37_NoSendAfterStop ==
    (lastObs # None /\ lastObs[1].stopped) => lastObs[1].notify = None

=============================================================================
